---- MODULE Spec2Model ----
(***************************************************************************)
(* A model of the Turn Driver of firassolt/gemini-cli:                     *)
(* ConversationLifecycleService.sendMessageStream                          *)
(* (packages/core/src/core/conversationLifecycleService.ts).               *)
(*                                                                         *)
(* sendMessageStream is an async generator.  A step of the model is one    *)
(* run of the generator between two suspension points that another task    *)
(* can observe (the awaits on tryCompressChat, loopDetector.turnStarted,   *)
(* router.route, the model stream and checkNextSpeaker).  A continuation   *)
(* `yield* this.sendMessageStream(...)` enters the callee synchronously,   *)
(* so the step that starts a continuation also runs the callee up to its   *)
(* first suspension point.  Every suspended ancestor does the same thing   *)
(* when its callee returns (`return turn`), so the ancestors are kept as a *)
(* count (depth) and the record of a call is the frame that is running.    *)
(***************************************************************************)
EXTENDS Integers, Sequences, FiniteSets, TLC

(* ---------------------------------------------------------------- bounds *)
\* Most events one model stream hands to the driver before it ends.
MaxStream == 2
\* Largest explicit turnsBudget a caller passes.
MaxBudget == 2
\* Top-level calls are started only while the session counter is below this.
MaxSessionCalls == 3
\* Largest options.maxAttempts a RetryController is built with.
MaxAttempts == 3
\* Most chunks the stream of one attempt hands over.
MaxChunks == 2
\* Most locations one tool invocation reports.
MaxLocations == 2
\* Most calls of describeForPrompt on one policy.
MaxDescribes == 2
\* Most sources one web search returns.
MaxSources == 2
\* Most operations on the chat besides sendMessageStream in one session.
MaxOperations == 2
\* Most /mode commands in one session.
MaxCommands == 5

(* ------------------------------------------------------ program constants *)
\* const MAX_TURNS = 100
MAX_TURNS == 100

Null == "null"
\* lastError = null
NoError == [error |-> Null, attempt |-> -1]
\* config.getSessionId(), the initial lastPromptId
SessionId == "session-id"
PromptIds == {"prompt-1", "prompt-2"}
Models == {"gemini-pro", "gemini-flash"}

\* The requests: a user's, and the two the driver injects.
UserRequest == "user"
RecoveryRequest == "System: Please continue."
ContinueRequest == "Please continue."

\* JSON.stringify(request).length of each request: the two injected requests
\* serialize to [{"text":"System: Please continue."}] and
\* [{"text":"Please continue."}]; a user request's length is an input.
UserRequestLengths == {8, 383, 400}
SerializedLength(req, userLen) ==
    IF req = RecoveryRequest THEN 37
    ELSE IF req = ContinueRequest THEN 29
    ELSE userLen

\* tokenLimit(model) - chat.getLastPromptTokenCount(), as the environment has it.
RemainingTokens == {100, 1000}

\* The events Turn.run hands over.
StreamEventTypes ==
    {"Content", "ToolCallRequest", "Error",
     "InvalidStream:MALFORMED_CONTENT", "InvalidStream:SAFETY_BLOCK"}
IsInvalidStream(e) ==
    e \in {"InvalidStream:MALFORMED_CONTENT", "InvalidStream:SAFETY_BLOCK"}

Min(a, b) == IF a < b THEN a ELSE b

\* undefined, as lastSentIdeContext and ideContextStore.get() can be.
Undefined == "undefined"
\* What ideContextStore.get() can hold.
IdeContexts == {Undefined, "ide-context-1", "ide-context-2"}

\* The entries of a chat history, as far as the driver looks at them, are
\* "user", "model", "model:functionCall" (a model turn with a functionCall
\* part) and "user:ideContext" (the synthetic user turn with IDE context).
\* The history the compression service hands back with COMPRESSED.
CompressedHistory == <<"user", "model">>
\* The histories a call can find: none yet, a finished exchange, and one whose
\* last model turn asks for a tool call.
Histories == {<<>>, <<"user", "model">>, <<"user", "model:functionCall">>}

CompressionStatuses ==
    {"COMPRESSED", "NOOP", "COMPRESSION_FAILED_INFLATED_TOKEN_COUNT"}
\* What compressionService.compress answers with each status.
CompressionResult(status) ==
    [compressionStatus |-> status,
     newHistory |-> IF status = "COMPRESSED" THEN CompressedHistory ELSE Null]

Procs == {1, 2}

VARIABLES
    config,                \* the Config values sendMessageStream reads
    sessionTurnCount,      \* private sessionTurnCount
    lastPromptId,          \* private lastPromptId
    currentSequenceModel,  \* private currentSequenceModel
    quotaErrorOccurred,    \* config.getQuotaErrorOccurred()
    call,                  \* per caller task: the running sendMessageStream frame
    series,                \* observation: routing since the last prompt change
    overlapped,            \* observation: two calls were ever active at once
    chat,                  \* private chat: the GeminiChat object and its history
    forceFullIdeContext,   \* private forceFullIdeContext
    lastSentIdeContext,    \* private lastSentIdeContext
    hasFailedCompressionAttempt,  \* private hasFailedCompressionAttempt
    retryRun,              \* a RetryController and the run() in progress on it
    policyCall,            \* a DeclarativeTaskPolicy and its last validateToolCall
    policyLoad,            \* one call of loadDeclarativePolicy
    verifyCall,            \* one call of VerificationService.verify
    routeCall,             \* one call of ModelRouterService.route
    session,               \* the CLI session of the /mode command
    lifecycle              \* observation: the last operation on the chat and
                           \* the last call of compressionService.compress

\* The chat and the fields that go with it.
chatVars == <<chat, forceFullIdeContext, lastSentIdeContext,
              hasFailedCompressionAttempt>>

\* The state of the components other than the Turn Driver.
componentVars == <<retryRun, policyCall, policyLoad, verifyCall, routeCall,
                   session, lifecycle>>

\* The state of the Turn Driver.
driverVars == <<config, sessionTurnCount, lastPromptId, currentSequenceModel,
                quotaErrorOccurred, call, series, overlapped, chatVars>>

\* What a step of one component leaves alone.
besidesRetryRun ==
    <<driverVars, policyCall, policyLoad, verifyCall, routeCall, session,
      lifecycle>>

besidesPolicyCall ==
    <<driverVars, retryRun, policyLoad, verifyCall, routeCall, session,
      lifecycle>>

besidesPolicyLoad ==
    <<driverVars, retryRun, policyCall, verifyCall, routeCall, session,
      lifecycle>>

besidesVerifyCall ==
    <<driverVars, retryRun, policyCall, policyLoad, routeCall, session,
      lifecycle>>

besidesRouteCall ==
    <<driverVars, retryRun, policyCall, policyLoad, verifyCall, session,
      lifecycle>>

besidesSession ==
    <<driverVars, retryRun, policyCall, policyLoad, verifyCall, routeCall,
      lifecycle>>

\* The components that a step of the Turn Driver on the chat leaves alone.
besidesLifecycle ==
    <<retryRun, policyCall, policyLoad, verifyCall, routeCall, session>>

vars == <<driverVars, componentVars>>

\* pc "returned": the running frame has returned and its suspended ancestors
\* (depth of them) have not resumed yet; "done" and "threw": the caller has
\* the top-level call's Turn, or its error.
Active(p) == call[p].pc \notin {"idle", "done", "threw"}

\* A RetryController on which run() has not been called.
IdleRun ==
    [pc |-> "idle", maxAttempts |-> 0, initialDelayMs |-> 0, attempt |-> 0,
     lastError |-> NoError, chunks |-> 0, delayMs |-> 0, events |-> <<>>]

\* validateToolCall returns null.
NoViolation ==
    [code |-> Null, message |-> <<>>, toolName |-> Null, path |-> <<>>]

\* An optional allowedTools that is undefined.
NoAllowedTools == [defined |-> FALSE, value |-> {}, order |-> <<>>]

\* No DeclarativeTaskPolicy object.
NoPolicy ==
    [allowedTools |-> NoAllowedTools, fileScopes |-> <<>>, labels |-> <<>>,
     responseRequirements |-> <<>>, projectRoot |-> <<>>]

\* No DeclarativeTaskPolicy has been constructed.
NoPolicyCall ==
    [pc |-> "none", policy |-> NoPolicy,
     toolName |-> Null, locations |-> <<>>, violation |-> NoViolation,
     described |-> <<>>]

\* A field of a rules object that is not set.
NoField == [defined |-> FALSE, value |-> <<>>, wellTyped |-> TRUE]

\* A rules object with no field: {}.
EmptyRules ==
    [allowedTools |-> NoField, fileScopes |-> NoField,
     responseRequirements |-> NoField, unknownKey |-> FALSE]

\* normalized.rules that is undefined.
NoRules == [defined |-> FALSE, value |-> EmptyRules]

\* loadDeclarativePolicy has not returned or thrown.
Pending == [kind |-> "pending", error |-> Null, policy |-> NoPolicy]

\* loadDeclarativePolicy has not been called.
NoPolicyLoad ==
    [pc |-> "idle",
     source |-> [kind |-> "undefined", path |-> FALSE, rules |-> NoRules],
     text |-> [kind |-> "none", document |-> EmptyRules],
     outcome |-> Pending]

\* No VerificationResult.
NoResult ==
    [required |-> FALSE, status |-> Null,
     reason |-> [defined |-> FALSE, value |-> <<>>],
     query |-> [defined |-> FALSE, value |-> <<>>],
     summaryText |-> [headline |-> Null, snippet |-> <<>>, sources |-> <<>>],
     assertions |-> <<>>]

\* verify has not been called.
IdleVerify ==
    [pc |-> "idle", finalText |-> <<>>,
     reason |-> [defined |-> FALSE, value |-> <<>>],
     callerAborted |-> FALSE, controller |-> "none",
     collaborators |-> [lookup |-> "none", build |-> "none"],
     lookup |-> "none", build |-> "none", search |-> "none",
     found |-> [defined |-> FALSE, value |-> <<>>],
     outcome |-> [kind |-> "pending", result |-> NoResult],
     events |-> <<>>]

\* No RoutingDecision.
NoDecision ==
    [model |-> Null,
     metadata |-> [source |-> Null, latencyMs |-> 0, reasoning |-> Null,
                   requiresVerification |-> FALSE,
                   verificationReason |->
                       [defined |-> FALSE, value |-> <<>>]]]

\* route has not been called.
IdleRoute ==
    [pc |-> "idle", approvalMode |-> Null, defaultModel |-> Null,
     chain |-> [kind |-> "pending", decision |-> NoDecision, error |-> Null],
     outcome |-> [kind |-> "pending", decision |-> NoDecision,
                  error |-> Null],
     telemetry |-> <<>>]

\* No call of compressionService.compress.
NoAttempt == [force |-> FALSE, hasFailedCompressionAttempt |-> FALSE,
              status |-> Null]

\* No operation on the chat since construction.
NoOperation == [op |-> "none", ops |-> 0, attempt |-> NoAttempt]

\* No message returned by a command.
NoMessage == [type |-> Null, messageType |-> Null, content |-> Null]

\* A session in the default mode on which no command has run.
NewSession ==
    [mode |-> "plan", commands |-> 0, rawArgs |-> <<>>,
     before |-> [mode |-> "plan", setModeCalls |-> <<>>],
     setModeCalls |-> <<>>, result |-> NoMessage]

\* The IDE-context step was not taken (or not reached).
NoIdeUpdate ==
    [kind |-> "skipped", contextParts |-> FALSE, newIdeContext |-> Undefined]

\* A frame before sendMessageStream has run any of its body.
IdleCall ==
    [pc |-> "idle", promptId |-> Null, request |-> Null, turns |-> 0,
     boundedTurns |-> 0, isInvalidStreamRetry |-> FALSE, depth |-> 0,
     signalAborted |-> FALSE, controllerAborted |-> FALSE, linked |-> "none",
     modelToUse |-> Null, modelOwner |-> Null, turn |-> "empty",
     pendingToolCalls |-> FALSE, out |-> <<>>, exit |-> Null,
     compression |-> Null, consumed |-> 0, checked |-> 0,
     startChecks |-> 0, sawError |-> FALSE, overflow |-> <<>>,
     endChecks |-> Null, nextSpeakerChecks |-> 0, retryFailureLogs |-> 0,
     startedBy |-> Null, resumed |-> FALSE, currentTurnCount |-> 0,
     entry |-> Null, beforeIde |-> Null, ideUpdate |-> NoIdeUpdate,
     estimate |-> Null,
     topTurns |-> 0, dispatches |-> 0, routerCalls |-> 0]

NoSeries == [routeCalls |-> 0, decisions |-> 0, model |-> Null, owner |-> Null]

\* config.getMaxSessionTurns(): no cap, or a cap of two turns.
SessionTurnCaps == {0, 2}

InitWith(P) ==
    /\ config \in P.configs
    /\ sessionTurnCount = 0
    /\ lastPromptId = SessionId
    /\ currentSequenceModel = Null
    /\ quotaErrorOccurred = FALSE
    /\ call = [p \in Procs |-> IdleCall]
    /\ series = NoSeries
    /\ overlapped = FALSE
    /\ chat \in [id : {0}, history : P.histories]
    /\ forceFullIdeContext = TRUE
    /\ lastSentIdeContext = Undefined
    /\ hasFailedCompressionAttempt = FALSE
    /\ retryRun = IdleRun
    /\ policyCall = NoPolicyCall
    /\ policyLoad = NoPolicyLoad
    /\ verifyCall = IdleVerify
    /\ routeCall = IdleRoute
    /\ session = NewSession
    /\ lifecycle = NoOperation

(* ------------------------------------------------- the driver's decisions *)
\* A handlePromptChange that clears the sticky model on every call.
HandlePromptChange_AlwaysClears(pid) == Null

\* A handlePromptChange that keeps the sticky model whatever the promptId is.
HandlePromptChange_NeverClears(pid) == currentSequenceModel

\* handlePromptChange: the sticky model after a call with promptId pid arrives.
HandlePromptChange(pid) ==
    IF lastPromptId # pid THEN Null ELSE currentSequenceModel

\* A cap test that already fires when the counter reaches the cap.
ExceedsSessionCap_AtCap(currentTurnCount) ==
    /\ config.maxSessionTurns > 0
    /\ currentTurnCount >= config.maxSessionTurns

\* config.getMaxSessionTurns() > 0 && currentTurnCount > config.getMaxSessionTurns()
ExceedsSessionCap(currentTurnCount) ==
    /\ config.maxSessionTurns > 0
    /\ currentTurnCount > config.maxSessionTurns

\* A budget that is not capped at MAX_TURNS.
BoundedTurns_Uncapped(turns) == turns

\* const boundedTurns = Math.min(turns, MAX_TURNS)
BoundedTurns(turns) == Min(turns, MAX_TURNS)

\* Math.floor(JSON.stringify(request).length / 4)
EstimatedRequestTokenCount(len) == len \div 4

\* A context-window test that already fires at 95% of the remainder.
WillOverflow_AtOrAbove(estimated, remaining) ==
    estimated * 100 >= remaining * 95

\* estimatedRequestTokenCount > remainingTokenCount * 0.95
WillOverflow(estimated, remaining) == estimated * 100 > remaining * 95

\* A linked signal that follows the caller's signal alone.
LinkedSignal_CallerOnly(signalAborted, controllerAborted) ==
    IF signalAborted THEN "aborted" ELSE "live"

\* AbortSignal.any([signal, controller.signal]).aborted
LinkedSignal(signalAborted, controllerAborted) ==
    IF signalAborted \/ controllerAborted THEN "aborted" ELSE "live"

\* The test sendMessageStream makes on an event it has just yielded, before it
\* injects 'System: Please continue.' or gives up on a second failure.
HandlesInvalidStream(e) ==
    /\ IsInvalidStream(e)
    /\ config.continueOnFailedApiCall

\* A budget test that lets a budget of zero through.
BudgetExhausted_BelowZero(boundedTurns) == boundedTurns < 0

\* if (!boundedTurns)
BudgetExhausted(boundedTurns) == boundedTurns = 0

\* The budget a continuation is started with: boundedTurns - 1.
ContinuationTurns(boundedTurns) == boundedTurns - 1

\* A recovery continuation that is not marked as one.
RecoveryIsRetry_Unmarked == FALSE

\* isInvalidStreamRetry of the continuation started after an invalid stream.
RecoveryIsRetry == TRUE

\* A test before the next-speaker check that ignores pending tool calls.
MayCheckNextSpeaker_IgnoresToolCalls(c) == ~c.signalAborted

\* !turn.pendingToolCalls.length && signal && !signal.aborted
MayCheckNextSpeaker(c) ==
    /\ ~c.pendingToolCalls
    /\ ~c.signalAborted

\* What a frame does when the continuation it delegated to has returned:
\* `return turn`, after either yield*.
AfterContinuation == "return"

\* A tryCompressChat that never starts a new chat.
StartsNewChat_Never(info) == FALSE

\* tryCompressChat starts a new chat: COMPRESSED && newHistory
StartsNewChat(info) ==
    /\ info.compressionStatus = "COMPRESSED"
    /\ info.newHistory # Null

\* hasCompressionFailure()
HasCompressionFailure == hasFailedCompressionAttempt

\* One call of compressionService.compress: the force and the failure flag
\* it was passed, and the status it answered.
Attempt(force, failed, status) ==
    [force |-> force, hasFailedCompressionAttempt |-> failed,
     status |-> status]

\* A failure flag that an inflated token count sets whether or not the
\* attempt was forced.
CompressionFailureAfter_ForcedMarksToo(info, force) ==
    IF info.compressionStatus = "COMPRESSED" /\ info.newHistory # Null
    THEN FALSE
    ELSE IF info.compressionStatus = "COMPRESSION_FAILED_INFLATED_TOKEN_COUNT"
    THEN TRUE
    ELSE hasFailedCompressionAttempt

\* hasFailedCompressionAttempt after tryCompressChat(promptId, force) got info.
CompressionFailureAfter(info, force) ==
    IF StartsNewChat(info) THEN FALSE
    ELSE IF info.compressionStatus = "COMPRESSION_FAILED_INFLATED_TOKEN_COUNT"
    THEN ~force
    ELSE hasFailedCompressionAttempt

\* lastMessage && lastMessage.role === 'model' &&
\* lastMessage.parts?.some((part) => 'functionCall' in part)
HasPendingToolCall(history) ==
    /\ Len(history) > 0
    /\ history[Len(history)] = "model:functionCall"

\* getIdeContextUpdate(forceFullContext), where the store holds current and
\* the builder hands back parts (empty or not) and current as newIdeContext.
GetIdeContextUpdate(forceFullContext, current, partsEmpty) ==
    IF current = Undefined
    THEN [kind |-> "noContext", contextParts |-> FALSE,
          newIdeContext |-> Undefined]
    ELSE IF forceFullContext \/ lastSentIdeContext = Undefined
    THEN [kind |-> "full", contextParts |-> ~partsEmpty,
          newIdeContext |-> current]
    ELSE [kind |-> "delta", contextParts |-> ~partsEmpty,
          newIdeContext |-> current]

\* An IDE-context step that is taken while a tool call is pending, too.
InjectsIdeContext_IgnoresToolCall(history) == config.ideMode

\* The IDE-context step is taken: config.getIdeMode() && !hasPendingToolCall
InjectsIdeContext(history) ==
    /\ config.ideMode
    /\ ~HasPendingToolCall(history)

\* The chat and its fields, as a call finds them.
Snapshot ==
    [chat |-> chat, forceFullIdeContext |-> forceFullIdeContext,
     lastSentIdeContext |-> lastSentIdeContext,
     hasFailedCompressionAttempt |-> hasFailedCompressionAttempt]

(* ------------------------------------------------------------ the frames *)
\* The frame sendMessageStream(req, signal, pid, turns, retry) starts in, on
\* the caller task whose record is base; why names what started it.
NewFrame(base, req, pid, turns, retry, depth, why) ==
    [base EXCEPT
        !.pc = "entered", !.promptId = pid, !.request = req, !.turns = turns,
        !.boundedTurns = 0, !.isInvalidStreamRetry = retry, !.depth = depth,
        !.controllerAborted = FALSE, !.linked = "none", !.modelToUse = Null,
        !.modelOwner = Null, !.turn = "empty", !.pendingToolCalls = FALSE,
        !.out = <<>>, !.exit = Null, !.compression = Null, !.consumed = 0,
        !.checked = 0, !.startChecks = 0, !.sawError = FALSE,
        !.overflow = <<>>, !.endChecks = Null, !.nextSpeakerChecks = 0,
        !.retryFailureLogs = 0, !.startedBy = why, !.resumed = FALSE,
        !.entry = Null, !.beforeIde = Null, !.ideUpdate = NoIdeUpdate,
        !.estimate = Null]

\* `return turn` (or `return new Turn(...)`) of the running frame.
Returned(c, why) ==
    [c EXCEPT !.pc = IF c.depth = 0 THEN "done" ELSE "returned",
              !.exit = why]

\* turn.run(modelToUse, request, linkedSignal)
Dispatched(c, model, owner) ==
    [c EXCEPT !.pc = "stream", !.modelToUse = model, !.modelOwner = owner,
              !.turn = "ran", !.dispatches = @ + 1]

\* A loop exit that leaves the internal controller alone.
OnLoopDetected_NoAbort(c) ==
    Returned([c EXCEPT !.out = Append(@, "LoopDetected")], "loopInStream")

\* Event-level loop detection reported a loop: LoopDetected is yielded in
\* place of the event, the internal controller is aborted, the frame returns.
OnLoopDetected(c) ==
    Returned([c EXCEPT !.out = Append(@, "LoopDetected"),
                       !.controllerAborted = TRUE,
                       !.linked = LinkedSignal(c.signalAborted, TRUE)],
             "loopInStream")

\* `yield event` for an event that passed the loop check; Turn has recorded a
\* tool-call request among its pending tool calls.
Yielded(c, e) ==
    [c EXCEPT !.out = Append(@, e),
              !.pendingToolCalls = @ \/ (e = "ToolCallRequest"),
              !.sawError = @ \/ (e = "Error")]

\* A second invalid stream in a recovery continuation: logContentRetryFailure,
\* then `return turn`.
OnRetryFailed(y) ==
    Returned([y EXCEPT !.retryFailureLogs = @ + 1], "retryFailed")

\* A counter that an invocation leaves as it is.
IncrementSessionTurnCount_Stuck(count) == count

\* incrementSessionTurnCount(): this.sessionTurnCount += 1
IncrementSessionTurnCount(count) == count + 1

\* sendMessageStream from its entry to its first await: ensurePrompt, the
\* session-turn cap, the budget and the context-window check.
Enter(p, base, req, pid, turns, retry, depth, why, P) ==
    LET currentTurnCount == IncrementSessionTurnCount(sessionTurnCount)
        boundedTurns == BoundedTurns(turns)
        fr == [NewFrame(base, req, pid, turns, retry, depth, why)
                  EXCEPT !.currentTurnCount = currentTurnCount,
                         !.entry = Snapshot]
    IN  /\ currentSequenceModel' = HandlePromptChange(pid)
        /\ series' = IF lastPromptId # pid THEN NoSeries ELSE series
        /\ lastPromptId' = pid
        /\ sessionTurnCount' = currentTurnCount
        /\ \E userLen \in P.lengths, remaining \in P.remaining :
            LET length == SerializedLength(req, userLen)
                estimated == EstimatedRequestTokenCount(length)
                fe == [fr EXCEPT !.estimate =
                            [length |-> length, estimated |-> estimated,
                             remaining |-> remaining]]
            IN  call' = [call EXCEPT ![p] =
                    IF ExceedsSessionCap(currentTurnCount)
                    THEN Returned([fe EXCEPT !.out = <<"MaxSessionTurns">>],
                                  "sessionCap")
                    ELSE IF BudgetExhausted(boundedTurns)
                    THEN Returned(fe, "budget")
                    ELSE IF WillOverflow(estimated, remaining)
                    THEN Returned(
                            [fe EXCEPT
                                !.boundedTurns = boundedTurns,
                                !.out = <<"ContextWindowWillOverflow">>,
                                !.overflow = <<estimated, remaining>>],
                            "overflow")
                    ELSE [fe EXCEPT !.pc = "compress",
                                    !.boundedTurns = boundedTurns]]

(* ----------------------------------------------------------- the actions *)
\* A caller task starts sendMessageStream(request, signal, promptId, turns).
StartCall(p, P) ==
    /\ ~Active(p)
    /\ P.overlap \/ \A q \in Procs : ~Active(q)
    /\ sessionTurnCount < P.maxSessionCalls
    /\ \E pid \in P.prompts, turns \in P.budgets, aborted \in P.aborted :
        Enter(p, [IdleCall EXCEPT !.topTurns = turns,
                                  !.signalAborted = aborted],
              UserRequest, pid, turns, FALSE, 0, Null, P)
    /\ overlapped' = (overlapped \/ \E q \in Procs \ {p} : Active(q))
    /\ UNCHANGED <<config, quotaErrorOccurred>>
    /\ UNCHANGED <<chatVars, componentVars>>

\* await tryCompressChat(promptId, false), the ChatCompressed event, the new
\* Turn, the AbortController and the linked signal, up to the await on
\* loopDetector.turnStarted.
Compress(p, P) ==
    /\ call[p].pc = "compress"
    /\ \E status \in P.compression, current \in P.ideContexts,
          partsEmpty \in P.partsEmpty :
        LET info == CompressionResult(status)
            chat1 == IF StartsNewChat(info)
                     THEN [id |-> call[p].currentTurnCount,
                           history |-> info.newHistory]
                     ELSE chat
            force1 == IF StartsNewChat(info) THEN TRUE
                      ELSE forceFullIdeContext
            history == chat1.history
            update == GetIdeContextUpdate(force1 \/ Len(history) = 0,
                                          current, partsEmpty)
        IN  /\ hasFailedCompressionAttempt'
                    = CompressionFailureAfter(info, FALSE)
            /\ IF InjectsIdeContext(history)
               THEN /\ chat' = IF update.contextParts
                               THEN [chat1 EXCEPT !.history =
                                        Append(@, "user:ideContext")]
                               ELSE chat1
                    /\ lastSentIdeContext' = update.newIdeContext
                    /\ forceFullIdeContext' = FALSE
               ELSE /\ chat' = chat1
                    /\ lastSentIdeContext' = lastSentIdeContext
                    /\ forceFullIdeContext' = force1
            /\ call' = [call EXCEPT ![p] =
                [@ EXCEPT
                    !.pc = "turnStarted",
                    !.compression = status,
                    !.out = IF status = "COMPRESSED"
                            THEN Append(@, "ChatCompressed") ELSE @,
                    !.beforeIde =
                        [chat |-> chat1, forceFullIdeContext |-> force1,
                         lastSentIdeContext |-> lastSentIdeContext],
                    !.ideUpdate = IF InjectsIdeContext(history)
                                  THEN update ELSE NoIdeUpdate,
                    !.linked = LinkedSignal(call[p].signalAborted, FALSE)]]
            /\ lifecycle' = [lifecycle EXCEPT !.attempt =
                                Attempt(FALSE, HasCompressionFailure, status)]
    /\ UNCHANGED <<config, sessionTurnCount, lastPromptId,
                   currentSequenceModel, quotaErrorOccurred, series,
                   overlapped>>
    /\ UNCHANGED besidesLifecycle

\* A loop at the start of the turn that is reported without a return.
OnLoopAtStart_NoReturn(c) ==
    [c EXCEPT !.out = Append(@, "LoopDetected"), !.pc = "routing"]

\* if (loopDetected) { yield { type: LoopDetected }; return turn; }
OnLoopAtStart(c) ==
    Returned([c EXCEPT !.out = Append(@, "LoopDetected")], "loopAtStart")

\* The answer of loopDetector.turnStarted, then model selection up to the
\* await on the router, or up to turn.run when the sequence has a model.
TurnStarted(p, P) ==
    /\ call[p].pc = "turnStarted"
    /\ \E loopDetected \in P.loops :
        LET c == [call[p] EXCEPT !.startChecks = @ + 1]
        IN  call' = [call EXCEPT ![p] =
                IF loopDetected
                THEN OnLoopAtStart(c)
                ELSE IF currentSequenceModel # Null
                THEN Dispatched(c, currentSequenceModel, series.owner)
                ELSE [c EXCEPT !.pc = "routing"]]
    /\ UNCHANGED <<config, sessionTurnCount, lastPromptId,
                   currentSequenceModel, quotaErrorOccurred, series,
                   overlapped>>
    /\ UNCHANGED <<chatVars, componentVars>>

\* router.route(routingContext) returns a decision: the model is locked for
\* the sequence and the turn is dispatched with it.
Route(p, P) ==
    /\ call[p].pc = "routing"
    /\ \E model \in P.models :
        /\ currentSequenceModel' = model
        /\ series' = [routeCalls |-> series.routeCalls + 1,
                      decisions |-> series.decisions + 1,
                      model |-> IF series.decisions = 0
                                THEN model ELSE series.model,
                      owner |-> call[p].promptId]
        /\ call' = [call EXCEPT ![p] =
                Dispatched([@ EXCEPT !.routerCalls = @ + 1], model,
                           call[p].promptId)]
    /\ UNCHANGED <<config, sessionTurnCount, lastPromptId,
                   quotaErrorOccurred, overlapped>>
    /\ UNCHANGED <<chatVars, componentVars>>

\* router.route raises: the error leaves sendMessageStream and every
\* suspended ancestor; nothing was locked.
RouteFails(p) ==
    /\ call[p].pc = "routing"
    /\ series' = [series EXCEPT !.routeCalls = @ + 1]
    /\ call' = [call EXCEPT ![p] =
            [@ EXCEPT !.pc = "threw", !.exit = "routerError",
                      !.routerCalls = @ + 1]]
    /\ UNCHANGED <<config, sessionTurnCount, lastPromptId,
                   currentSequenceModel, quotaErrorOccurred, overlapped>>
    /\ UNCHANGED <<chatVars, componentVars>>

\* One round of `for await (const event of resultStream)`: the event-level
\* loop check, the yield, and the handling of InvalidStream and Error.
StreamEvent(p, P) ==
    /\ call[p].pc = "stream"
    /\ call[p].consumed < P.maxStream
    /\ \E e \in P.events, loop \in P.loops :
        LET c == [call[p] EXCEPT !.consumed = @ + 1, !.checked = @ + 1]
            y == Yielded(c, e)
        IN  IF ~loop /\ HandlesInvalidStream(e) /\ ~c.isInvalidStreamRetry
            THEN Enter(p, y, RecoveryRequest, c.promptId,
                       ContinuationTurns(c.boundedTurns), RecoveryIsRetry,
                       c.depth + 1, e, P)
            ELSE /\ call' = [call EXCEPT ![p] =
                        IF loop THEN OnLoopDetected(c)
                        ELSE IF HandlesInvalidStream(e) THEN OnRetryFailed(y)
                        ELSE IF e = "Error" THEN Returned(y, "error")
                        ELSE y]
                 /\ UNCHANGED <<sessionTurnCount, lastPromptId,
                                currentSequenceModel, series>>
    /\ UNCHANGED <<config, quotaErrorOccurred, overlapped>>
    /\ UNCHANGED <<chatVars, componentVars>>

\* The stream is exhausted: the tests that precede the next-speaker check, up
\* to the await on checkNextSpeaker.
StreamEnd(p) ==
    /\ call[p].pc = "stream"
    /\ call' = [call EXCEPT ![p] =
            LET c == [call[p] EXCEPT !.endChecks =
                        [signalAborted |-> call[p].signalAborted,
                         quotaError |-> quotaErrorOccurred]]
            IN  IF ~MayCheckNextSpeaker(c)
                THEN Returned(c, "noNextSpeakerCheck")
                ELSE IF quotaErrorOccurred
                THEN Returned(c, "quotaError")
                ELSE IF config.skipNextSpeakerCheck
                THEN Returned(c, "skipNextSpeakerCheck")
                ELSE [c EXCEPT !.pc = "nextSpeaker"]]
    /\ UNCHANGED <<config, sessionTurnCount, lastPromptId,
                   currentSequenceModel, quotaErrorOccurred, series,
                   overlapped>>
    /\ UNCHANGED <<chatVars, componentVars>>

\* checkNextSpeaker answers, logNextSpeakerCheck records it, and the driver
\* continues with 'Please continue.' when the answer is 'model'.
NextSpeaker(p, P) ==
    /\ call[p].pc = "nextSpeaker"
    /\ \E answer \in P.speakers :
        LET c == [call[p] EXCEPT !.nextSpeakerChecks = @ + 1]
        IN  IF answer = "model"
            THEN Enter(p, c, ContinueRequest, c.promptId,
                       ContinuationTurns(c.boundedTurns), FALSE,
                       c.depth + 1, "nextSpeaker", P)
            ELSE /\ call' = [call EXCEPT ![p] = Returned(c, "userSpeaksNext")]
                 /\ UNCHANGED <<sessionTurnCount, lastPromptId,
                                currentSequenceModel, series>>
    /\ UNCHANGED <<config, quotaErrorOccurred, overlapped>>
    /\ UNCHANGED <<chatVars, componentVars>>

\* The continuation has returned: the frame that delegated to it resumes after
\* its yield* and returns its own turn.  What that frame had emitted is not
\* kept; the record shows a resumed frame.
Resume(p) ==
    /\ call[p].pc = "returned"
    /\ call' = [call EXCEPT ![p] =
            LET fr == [NewFrame(call[p], Null, call[p].promptId, 0, FALSE,
                                call[p].depth - 1, Null)
                          EXCEPT !.resumed = TRUE, !.turn = "ran"]
            IN  IF AfterContinuation = "return"
                THEN Returned(fr, "afterContinuation")
                ELSE [fr EXCEPT !.pc = "stream"]]
    /\ UNCHANGED <<config, sessionTurnCount, lastPromptId,
                   currentSequenceModel, quotaErrorOccurred, series,
                   overlapped>>
    /\ UNCHANGED <<chatVars, componentVars>>

\* The caller aborts the signal it passed; a linked signal follows it.
AbortCaller(p) ==
    /\ Active(p)
    /\ ~call[p].signalAborted
    /\ call' = [call EXCEPT ![p] =
            [@ EXCEPT !.signalAborted = TRUE,
                      !.linked = IF @ = "none" THEN "none"
                                 ELSE LinkedSignal(TRUE,
                                                   call[p].controllerAborted)]]
    /\ UNCHANGED <<config, sessionTurnCount, lastPromptId,
                   currentSequenceModel, quotaErrorOccurred, series,
                   overlapped>>
    /\ UNCHANGED <<chatVars, componentVars>>

\* The fallback handling outside the driver records a quota error while a
\* model call is in flight.
QuotaError(p) ==
    /\ call[p].pc = "stream"
    /\ ~quotaErrorOccurred
    /\ quotaErrorOccurred' = TRUE
    /\ UNCHANGED <<config, sessionTurnCount, lastPromptId,
                   currentSequenceModel, call, series, overlapped>>
    /\ UNCHANGED <<chatVars, componentVars>>

(* --------------------------------------------------- the RetryController *)
\* What an attempt can fail with: an InvalidStreamError of either category,
\* or an error of another class.
AttemptErrors ==
    {"InvalidStreamError:MALFORMED_CONTENT", "InvalidStreamError:SAFETY_BLOCK",
     "Error"}
\* new Error('Request failed after all retries.')
RequestFailedError == [error |-> "Request failed after all retries.",
                       attempt |-> -1]
\* options.maxAttempts and options.initialDelayMs a controller is built with.
MaxAttemptsOptions == 0 .. MaxAttempts
InitialDelays == {0, 500}

\* A class test that takes every error for an InvalidStreamError.
IsInvalidStreamError_Any(error) == TRUE

\* error instanceof InvalidStreamError
IsInvalidStreamError(error) ==
    error \in {"InvalidStreamError:MALFORMED_CONTENT",
               "InvalidStreamError:SAFETY_BLOCK"}
\* error.category
CategoryOf(error) ==
    IF error = "InvalidStreamError:SAFETY_BLOCK" THEN "SAFETY_BLOCK"
    ELSE "MALFORMED_CONTENT"

\* What run() does that can be seen from outside, in the order it does it: a
\* call of attemptFactory, a yielded chunk or retry event, the completion of
\* a stream, a caught error, a telemetry report, an awaited delay.
RunEvent(kind, attempt, delayMs, category) ==
    [kind |-> kind, attempt |-> attempt, delayMs |-> delayMs,
     category |-> category]

\* A category test that takes no failure for a safety block.
IsSafetyBlock_Never(category) == FALSE

\* error.category === 'SAFETY_BLOCK'
IsSafetyBlock(category) == category = "SAFETY_BLOCK"

\* A backoff that waits the same time before every retry.
RetryDelayMs_Flat(initialDelayMs, attempt) == initialDelayMs

\* const delayMs = this.options.initialDelayMs * (attempt + 1)
RetryDelayMs(initialDelayMs, attempt) == initialDelayMs * (attempt + 1)

\* A test for remaining attempts that lets the last attempt be retried.
AttemptsRemain_LastToo(attempt, maxAttempts) == attempt < maxAttempts

\* attempt < this.options.maxAttempts - 1
AttemptsRemain(attempt, maxAttempts) == attempt < maxAttempts - 1

\* A decision that carries no payload: { shouldRetry: false }.
NoPayload ==
    [attempt |-> -1, maxAttempts |-> -1, delayMs |-> 0, errorCategory |-> Null]

\* The RetryEventPayload that handleFailure builds for an InvalidStreamError.
RetryPayload(r, attempt, error) ==
    [attempt |-> attempt, maxAttempts |-> r.maxAttempts,
     delayMs |-> RetryDelayMs(r.initialDelayMs, attempt),
     errorCategory |-> CategoryOf(error)]

\* yield { kind: 'retry', value: decision.payload }
RetryEvent(payload) ==
    [kind |-> "retry", attempt |-> payload.attempt,
     delayMs |-> payload.delayMs, category |-> payload.errorCategory,
     maxAttempts |-> payload.maxAttempts]

\* handleFailure(attempt, error): the decision, and the telemetry it reports.
HandleFailure(r, attempt, error) ==
    LET delayMs == RetryDelayMs(r.initialDelayMs, attempt)
        category == CategoryOf(error)
        payload == RetryPayload(r, attempt, error)
    IN  IF ~IsInvalidStreamError(error)
        THEN [shouldRetry |-> FALSE, payload |-> NoPayload, delayMs |-> 0,
              logs |-> <<>>]
        ELSE IF IsSafetyBlock(category)
        THEN [shouldRetry |-> FALSE, payload |-> payload, delayMs |-> 0,
              logs |-> <<RunEvent("logRetryFailure", attempt, delayMs,
                                  category)>>]
        ELSE IF AttemptsRemain(attempt, r.maxAttempts)
        THEN [shouldRetry |-> TRUE, payload |-> payload, delayMs |-> delayMs,
              logs |-> <<RunEvent("logRetryAttempt", attempt, delayMs,
                                  category)>>]
        ELSE [shouldRetry |-> FALSE, payload |-> payload, delayMs |-> 0,
              logs |-> <<RunEvent("logRetryFailure", attempt, delayMs,
                                  category)>>]

\* An end of run() that raises nothing.
AfterLoop_NeverRaises(r) == [r EXCEPT !.pc = "returned"]

\* if (lastError) throw lastError, after the loop.
AfterLoop(r) ==
    [r EXCEPT !.pc = IF r.lastError # NoError THEN "raised" ELSE "returned"]

\* The loop test of run(): attempt < this.options.maxAttempts
LoopTest(r) ==
    IF r.attempt < r.maxAttempts THEN [r EXCEPT !.pc = "attempt"]
    ELSE AfterLoop(r)

\* attempt++ and the loop test.
NextIteration(r) ==
    LoopTest([r EXCEPT !.attempt = @ + 1, !.chunks = 0, !.delayMs = 0])

\* A backoff that awaits the delay before it yields the retry event.
BackoffEvents_DelayFirst(r, error, decision) ==
    (IF decision.shouldRetry /\ decision.delayMs > 0
     THEN <<RunEvent("delay", r.attempt, decision.delayMs, Null)>>
     ELSE <<>>)
    \o (IF decision.payload # NoPayload /\ decision.shouldRetry
        THEN <<RetryEvent(decision.payload)>>
        ELSE <<>>)

\* What the catch block does after handleFailure, in its order: the retry
\* event is yielded when there is a payload and a retry, then the delay is
\* awaited when there is a retry and a positive delay.
BackoffEvents(r, error, decision) ==
    (IF decision.payload # NoPayload /\ decision.shouldRetry
     THEN <<RetryEvent(decision.payload)>>
     ELSE <<>>)
    \o (IF decision.shouldRetry /\ decision.delayMs > 0
        THEN <<RunEvent("delay", r.attempt, decision.delayMs, Null)>>
        ELSE <<>>)

\* The catch block of run() for the error of attempt r.attempt, up to the
\* await on the delay, the next attemptFactory call or the end of run().
Caught(r, error) ==
    LET decision == HandleFailure(r, r.attempt, error)
        told == [r EXCEPT !.lastError = [error |-> error,
                                         attempt |-> r.attempt],
                          !.events = Append(@, RunEvent("catch", r.attempt,
                                                        0, error))
                                      \o decision.logs
                                      \o BackoffEvents(r, error, decision)]
    IN  IF ~decision.shouldRetry THEN AfterLoop(told)
        ELSE IF decision.delayMs > 0
        THEN [told EXCEPT !.pc = "delay", !.delayMs = decision.delayMs]
        ELSE NextIteration(told)

\* run(attemptFactory) is called on a controller built with some options.
Run ==
    /\ retryRun.pc = "idle"
    /\ \E maxAttempts \in MaxAttemptsOptions, initialDelayMs \in InitialDelays :
        LET r == [IdleRun EXCEPT !.maxAttempts = maxAttempts,
                                 !.initialDelayMs = initialDelayMs,
                                 !.lastError = RequestFailedError]
        IN  retryRun' = LoopTest(r)
    /\ UNCHANGED besidesRetryRun

\* await attemptFactory(attempt) hands back a stream.
AttemptFactory ==
    /\ retryRun.pc = "attempt"
    /\ retryRun' = [retryRun EXCEPT !.pc = "stream",
                              !.events = Append(@, RunEvent("attemptFactory",
                                                    retryRun.attempt, 0, Null))]
    /\ UNCHANGED besidesRetryRun

\* await attemptFactory(attempt) rejects.
AttemptFactoryFails ==
    /\ retryRun.pc = "attempt"
    /\ \E error \in AttemptErrors :
        retryRun' = Caught([retryRun EXCEPT !.events =
                            Append(@, RunEvent("attemptFactory",
                                               retryRun.attempt, 0, Null))],
                        error)
    /\ UNCHANGED besidesRetryRun

\* The stream of the attempt hands over a chunk, which run() yields.
StreamChunk ==
    /\ retryRun.pc = "stream"
    /\ retryRun.chunks < MaxChunks
    /\ retryRun' = [retryRun EXCEPT !.chunks = @ + 1,
                              !.events = Append(@, RunEvent("chunk",
                                                    retryRun.attempt, 0, Null))]
    /\ UNCHANGED besidesRetryRun

\* The stream of the attempt ends: lastError = null; break.
StreamCompletes ==
    /\ retryRun.pc = "stream"
    /\ retryRun' = AfterLoop([retryRun EXCEPT
                    !.lastError = NoError,
                    !.events = Append(@, RunEvent("completed",
                                                  retryRun.attempt, 0, Null))])
    /\ UNCHANGED besidesRetryRun

\* The stream of the attempt throws.
StreamThrows ==
    /\ retryRun.pc = "stream"
    /\ \E error \in AttemptErrors : retryRun' = Caught(retryRun, error)
    /\ UNCHANGED besidesRetryRun

\* The timer of the backoff delay fires: the loop goes on to the next attempt.
DelayElapses ==
    /\ retryRun.pc = "delay"
    /\ retryRun' = NextIteration(retryRun)
    /\ UNCHANGED besidesRetryRun

(* ----------------------------------------------- the DeclarativeTaskPolicy *)
\* Paths and globs are the sequences of their segments.
\* An optional field that is absent, and one that holds a list.
Absent == [defined |-> FALSE, value |-> <<>>]

Some(list) == [defined |-> TRUE, value |-> list]

\* projectRoot: '/workspace'
ProjectRoot == <<"workspace">>

\* projectRoot: 'C:\workspace', where node:path is path.win32.
WindowsProjectRoot == <<"C:", "workspace">>

ProjectRoots == {ProjectRoot, WindowsProjectRoot}

\* The drive letters that begin a path of path.win32.
Drives == {"C:", "D:"}

\* The paths a tool location names: under /workspace, elsewhere, under
\* C:\workspace and on another drive.
Paths ==
    {<<"workspace", "src", "index.ts">>,
     <<"workspace", "src", "vendor", "lib.ts">>,
     <<"workspace", "README.md">>,
     <<"workspace", "..cache", "index.ts">>,
     <<"etc", "passwd">>,
     <<"C:", "workspace", "src", "index.ts">>,
     <<"D:", "secrets", "key.pem">>}

\* invocation.toolLocations?.() ?? [], as the list of the locations' paths.
Locations == UNION {[1 .. n -> Paths] : n \in 0 .. MaxLocations}

\* The tool names, in the order Array.prototype.sort() puts them.
ToolOrder == <<"edit", "read_file", "write_file">>

ToolNames == {ToolOrder[i] : i \in 1 .. Len(ToolOrder)}

\* rules.allowedTools: absent, empty, or naming some tools (one twice).
AllowedToolsRules ==
    {Absent, Some(<<>>), Some(<<"read_file">>), Some(<<"write_file">>),
     Some(<<"write_file", "read_file", "write_file">>)}

\* rules.fileScopes: absent, empty, or lists of scopes of include globs and
\* optional exclude globs.
FileScopesRules ==
    LET src == <<"src", "**">>
        vendor == <<"src", "vendor", "**">>
        all == <<"**">>
    IN  {Absent, Some(<<>>),
         Some(<<[include |-> <<src>>, exclude |-> Absent]>>),
         Some(<<[include |-> <<src>>, exclude |-> Some(<<vendor>>)]>>),
         Some(<<[include |-> <<all>>, exclude |-> Some(<<src>>)],
                [include |-> <<vendor>>, exclude |-> Some(<<>>)]>>),
         Some(<<[include |-> <<all>>, exclude |-> Absent]>>)}

\* The scope of the test of describeForPrompt, with a name and a description.
NamedScope ==
    [name |-> "Sources", description |-> "Primary application code.",
     include |-> <<<<"src", "**">>>>,
     exclude |-> Some(<<<<"src", "vendor", "**">>>>)]

\* What `scope_${Math.random().toString(16).slice(2, 8)}` comes to.
RandomLabels == {"scope_1a2b3c", "scope_4d5e6f"}

\* The draws of Math.random() while the scopes of one policy are built: one
\* per scope.
RandomDraws(scopes) == [1 .. Len(scopes) -> RandomLabels]

\* rules.responseRequirements: absent, or two requirements.
ResponseRequirementsRules ==
    {Absent,
     Some(<<[id |-> "summary", description |-> "Summarize your changes."],
            [id |-> "checks", description |-> "List the checks you ran."]>>)}

PolicyRules ==
    [allowedTools : AllowedToolsRules, fileScopes : FileScopesRules,
     responseRequirements : ResponseRequirementsRules]

\* new Set(array)
ToSet(array) == {array[i] : i \in 1 .. Len(array)}

\* The order in which new Set(array) holds its members: that of their first
\* occurrence in the array.
RECURSIVE InsertionOrder(_)
InsertionOrder(array) ==
    IF array = <<>> THEN <<>>
    ELSE LET front == InsertionOrder(SubSeq(array, 1, Len(array) - 1))
             last == array[Len(array)]
         IN  IF last \in ToSet(front) THEN front ELSE Append(front, last)

\* rules.fileScopes ?? []
ScopesOf(rules) ==
    IF rules.fileScopes.defined THEN rules.fileScopes.value ELSE <<>>

\* rule.name ?? rule.id ?? `scope_${Math.random()...}`
LabelOf(rule, random) ==
    IF "name" \in DOMAIN rule THEN rule.name
    ELSE IF "id" \in DOMAIN rule THEN rule.id
    ELSE random

\* constructor(rules, projectRoot), where random[i] is what Math.random()
\* gives the matcher of the i-th scope.
NewPolicy(rules, projectRoot, random) ==
    [allowedTools |-> IF rules.allowedTools.defined
                      THEN [defined |-> TRUE,
                            value |-> ToSet(rules.allowedTools.value),
                            order |-> InsertionOrder(rules.allowedTools.value)]
                      ELSE NoAllowedTools,
     fileScopes |-> ScopesOf(rules),
     labels |-> [i \in 1 .. Len(ScopesOf(rules)) |->
                    LabelOf(ScopesOf(rules)[i], random[i])],
     responseRequirements |-> IF rules.responseRequirements.defined
                              THEN rules.responseRequirements.value
                              ELSE <<>>,
     projectRoot |-> projectRoot]

\* picomatch(pattern, { dot: true }) applied to a path: a literal segment
\* matches itself, '*' one segment, and '**' any run of segments; with
\* dot: true a wildcard takes a segment that begins with dots, but never the
\* segment '..' itself.
RECURSIVE GlobMatches(_, _)
GlobMatches(pattern, value) ==
    IF pattern = <<>> THEN value = <<>>
    ELSE IF Head(pattern) = "**"
    THEN \/ GlobMatches(Tail(pattern), value)
         \/ /\ value # <<>>
            /\ Head(value) # ".."
            /\ GlobMatches(pattern, Tail(value))
    ELSE /\ value # <<>>
         /\ \/ Head(pattern) = Head(value)
            \/ Head(pattern) = "*" /\ Head(value) # ".."
         /\ GlobMatches(Tail(pattern), Tail(value))

\* The number of leading segments two paths share.
RECURSIVE CommonLen(_, _)
CommonLen(a, b) ==
    IF a = <<>> \/ b = <<>> THEN 0
    ELSE IF Head(a) # Head(b) THEN 0
    ELSE 1 + CommonLen(Tail(a), Tail(b))

\* The two paths are on different drives of path.win32.
DifferentDrives(from, to) ==
    /\ from # <<>> /\ to # <<>>
    /\ Head(from) \in Drives /\ Head(to) \in Drives
    /\ Head(from) # Head(to)

\* path.relative(from, to): the way up from `from` to the common directory
\* and down to `to`; path.win32 returns `to` itself when the two paths have
\* no drive in common.
Relative(from, to) ==
    LET n == CommonLen(from, to)
    IN  IF DifferentDrives(from, to) THEN to
        ELSE [i \in 1 .. (Len(from) - n) |-> ".."]
                \o SubSeq(to, n + 1, Len(to))

\* relative.startsWith('..'): the first segment is '..' or begins with it.
StartsWithDotDot(relative) ==
    relative # <<>> /\ Head(relative) \in {"..", "..cache"}

\* normalizeToPosix(relativePath): the separator changes, the segments stay.
NormalizeToPosix(relative) == relative

\* FileScopeMatcher.matches(absolutePath) of the matcher built from rule.
ScopeMatches(rule, projectRoot, absolutePath) ==
    LET relative == Relative(projectRoot, absolutePath)
        normalized == NormalizeToPosix(relative)
        excludes == IF rule.exclude.defined THEN rule.exclude.value ELSE <<>>
        included == \E i \in 1 .. Len(rule.include) :
                        GlobMatches(rule.include[i], normalized)
        excluded == \E i \in 1 .. Len(excludes) :
                        GlobMatches(excludes[i], normalized)
    IN  IF relative = <<>> \/ StartsWithDotDot(relative) THEN FALSE
        ELSE IF ~included THEN FALSE
        ELSE ~excluded

\* An allow-list test that blocks every tool once there is a list.
ToolBlocked_ByAnyList(allowedTools, toolName) == allowedTools.defined

\* An allow-list test that blocks no tool.
ToolBlocked_Never(allowedTools, toolName) == FALSE

\* this.allowedTools && !this.allowedTools.has(toolName)
ToolBlocked(allowedTools, toolName) ==
    allowedTools.defined /\ toolName \notin allowedTools.value

\* A sort that leaves the names in the order they were declared in.
SortTools_AsDeclared(names) == names

\* [...names].sort(): the names in the order of their code units.
SortTools(names) == SelectSeq(ToolOrder, LAMBDA t : t \in ToSet(names))

\* [...this.allowedTools].sort().join(', ') || 'none'
AllowedList(allowedTools) ==
    LET sorted == SelectSeq(ToolOrder, LAMBDA t : t \in allowedTools.value)
    IN  IF sorted = <<>> THEN <<"none">> ELSE sorted

\* A search of the scopes that looks at the first scope only.
FindsScope_FirstOnly(policy, absolutePath) ==
    /\ Len(policy.fileScopes) > 0
    /\ ScopeMatches(policy.fileScopes[1], policy.projectRoot, absolutePath)

\* this.fileScopes.find((scope) => scope.matches(location.path)) finds one.
FindsScope(policy, absolutePath) ==
    \E s \in 1 .. Len(policy.fileScopes) :
        ScopeMatches(policy.fileScopes[s], policy.projectRoot, absolutePath)

\* The loop over the locations from the i-th on: the violation of the first
\* location that no scope matches, or null.
RECURSIVE ScopeViolation(_, _, _, _)
ScopeViolation(policy, toolName, locations, i) ==
    IF i > Len(locations) THEN NoViolation
    ELSE IF FindsScope(policy, locations[i])
    THEN ScopeViolation(policy, toolName, locations, i + 1)
    ELSE [code |-> "FILE_SCOPE_VIOLATION",
          message |-> <<"Tool", toolName, "attempted to access">>
                      \o Relative(policy.projectRoot, locations[i])
                      \o <<"which is outside of the allowed policy scopes.">>,
          toolName |-> toolName,
          path |-> locations[i]]

\* validateToolCall(toolName, invocation)
ValidateToolCall(policy, toolName, locations) ==
    IF ToolBlocked(policy.allowedTools, toolName)
    THEN [code |-> "TOOL_NOT_ALLOWED",
          message |-> <<"Tool", toolName,
                        "is blocked by declarative policy. Allowed tools:">>
                      \o AllowedList(policy.allowedTools),
          toolName |-> toolName,
          path |-> <<>>]
    ELSE IF Len(policy.fileScopes) = 0 THEN NoViolation
    ELSE ScopeViolation(policy, toolName, locations, 1)

\* The sections of the text of describeForPrompt() about the allow-list.
AllowedToolsSection(policy) ==
    IF policy.allowedTools.defined
    THEN <<[kind |-> "allowedTools",
            tools |-> IF policy.allowedTools.order = <<>> THEN <<"None">>
                      ELSE SortTools(policy.allowedTools.order)]>>
    ELSE <<>>

\* scope.describe(), for the i-th scope.
DescribeScope(policy, i) ==
    LET rule == policy.fileScopes[i]
    IN  [kind |-> "scope",
         label |-> policy.labels[i],
         description |-> IF "description" \in DOMAIN rule
                         THEN rule.description ELSE "",
         include |-> rule.include,
         exclude |-> IF rule.exclude.defined THEN rule.exclude.value
                     ELSE <<>>]

\* The sections about the file scopes: a heading and one per scope.
FileScopesSection(policy) ==
    IF Len(policy.fileScopes) > 0
    THEN <<[kind |-> "heading", text |-> "- File scopes:"]>>
         \o [i \in 1 .. Len(policy.fileScopes) |-> DescribeScope(policy, i)]
    ELSE <<>>

\* The sections about the response requirements.
RequirementsSection(policy) ==
    IF Len(policy.responseRequirements) > 0
    THEN <<[kind |-> "heading", text |-> "- Response requirements:"]>>
         \o [i \in 1 .. Len(policy.responseRequirements) |->
                [kind |-> "requirement",
                 id |-> policy.responseRequirements[i].id,
                 description |-> policy.responseRequirements[i].description]]
    ELSE <<>>

\* describeForPrompt(): the sections it joins, in their order.
DescribeForPrompt(policy) ==
    <<[kind |-> "heading",
       text |-> "You must comply with the declarative policy rules below."]>>
    \o AllowedToolsSection(policy)
    \o FileScopesSection(policy)
    \o RequirementsSection(policy)

\* new DeclarativeTaskPolicy(rules, projectRoot)
NewDeclarativeTaskPolicy(E) ==
    /\ policyCall.pc = "none"
    /\ \E rules \in E.rules, projectRoot \in E.projectRoots :
        \E random \in RandomDraws(ScopesOf(rules)) :
            policyCall' = [policyCall EXCEPT
                            !.pc = "ready",
                            !.policy = NewPolicy(rules, projectRoot, random)]
    /\ UNCHANGED besidesPolicyCall

\* policy.describeForPrompt(), before or after validateToolCall.
Describe ==
    /\ policyCall.pc \in {"ready", "validated"}
    /\ Len(policyCall.described) < MaxDescribes
    /\ policyCall' = [policyCall EXCEPT !.described =
            Append(@, [text |-> DescribeForPrompt(policyCall.policy),
                       validated |-> policyCall.pc = "validated"])]
    /\ UNCHANGED besidesPolicyCall

\* policy.validateToolCall(toolName, invocation)
Validate(E) ==
    /\ policyCall.pc = "ready"
    /\ \E toolName \in ToolNames, locations \in E.locations :
        policyCall' = [policyCall EXCEPT
                        !.pc = "validated",
                        !.toolName = toolName,
                        !.locations = locations,
                        !.violation = ValidateToolCall(policyCall.policy,
                                                       toolName, locations)]
    /\ UNCHANGED besidesPolicyCall

(* -------------------------------------------------- loadDeclarativePolicy *)
\* A field of a rules object that holds a list, and one whose value is not
\* of the field's type.
Field(list) == [defined |-> TRUE, value |-> list, wellTyped |-> TRUE]

WrongType == [defined |-> TRUE, value |-> <<>>, wellTyped |-> FALSE]

\* The rules a well-formed policy document holds.
DocumentRules ==
    [allowedTools : {NoField, Field(<<"read_file">>)},
     fileScopes : {NoField,
                   Field(<<[include |-> <<<<"src", "**">>>>,
                            exclude |-> Absent]>>)},
     responseRequirements :
        {NoField,
         Field(<<[id |-> "summary",
                  description |-> "Summarize your changes."]>>)},
     unknownKey : {FALSE}]

\* A well-formed document that sets every field.
FullDocument ==
    [allowedTools |-> Field(<<"read_file">>),
     fileScopes |-> Field(<<[include |-> <<<<"src", "**">>>>,
                             exclude |-> Absent]>>),
     responseRequirements |->
        Field(<<[id |-> "summary",
                 description |-> "Summarize your changes."]>>),
     unknownKey |-> FALSE]

\* Documents that parse and violate PolicyRulesSchema in one place: an unknown
\* key, a scope with an empty include list, a field of the wrong type.
MalformedDocuments ==
    {[FullDocument EXCEPT !.unknownKey = TRUE],
     [FullDocument EXCEPT !.fileScopes =
        Field(<<[include |-> <<>>, exclude |-> Absent]>>)],
     [FullDocument EXCEPT !.allowedTools = WrongType],
     [FullDocument EXCEPT !.fileScopes = WrongType],
     [FullDocument EXCEPT !.responseRequirements = WrongType]}

\* What readTextFile resolves with: blank text, text that neither JSON.parse
\* nor parseYaml accepts, or the text of a document.
PolicyTexts ==
    {[kind |-> "blank", document |-> EmptyRules],
     [kind |-> "unparseable", document |-> EmptyRules]}
    \cup [kind : {"document"}, document : DocumentRules \cup MalformedDocuments]

\* The inline rules of a source: well-formed ones, one with an unknown key
\* and one with a field of the wrong type.
InlineRules ==
    LET wellFormed ==
            [allowedTools : {NoField, Field(<<>>), Field(<<"write_file">>)},
             fileScopes : {NoField,
                           Field(<<[include |-> <<<<"**">>>>,
                                    exclude |-> Absent]>>)},
             responseRequirements :
                {NoField,
                 Field(<<[id |-> "checks",
                          description |-> "List the checks you ran."]>>)},
             unknownKey : {FALSE}]
        full == [allowedTools |-> Field(<<"write_file">>),
                 fileScopes |-> NoField,
                 responseRequirements |-> NoField,
                 unknownKey |-> FALSE]
    IN  wellFormed \cup {[full EXCEPT !.unknownKey = TRUE],
                         [full EXCEPT !.allowedTools = WrongType]}

\* The object has one of the keys of DeclarativePolicyRules.
HasRulesKey(rules) ==
    \/ rules.allowedTools.defined
    \/ rules.fileScopes.defined
    \/ rules.responseRequirements.defined

\* source: undefined, a rules object, or a config { path?, rules? }.
PolicySources ==
    {[kind |-> "undefined", path |-> FALSE, rules |-> NoRules]}
    \cup {[kind |-> "rules", path |-> FALSE,
           rules |-> [defined |-> TRUE, value |-> r]] :
            r \in {x \in InlineRules : HasRulesKey(x)}}
    \cup [kind : {"config"}, path : BOOLEAN,
          rules : {NoRules} \cup [defined : {TRUE}, value : InlineRules]]

\* parsePolicyDocument(documentText)
ParsePolicyDocument(text) ==
    [threw |-> text.kind = "unparseable",
     value |-> IF text.kind = "blank" THEN EmptyRules ELSE text.document]

\* A schema that accepts every object.
SchemaAccepts_Anything(rules) == TRUE

\* PolicyRulesSchema.safeParse(rules).success
SchemaAccepts(rules) ==
    /\ ~rules.unknownKey
    /\ rules.allowedTools.wellTyped
    /\ rules.fileScopes.wellTyped
    /\ rules.responseRequirements.wellTyped
    /\ \A i \in 1 .. Len(rules.fileScopes.value) :
            Len(rules.fileScopes.value[i].include) > 0

\* A merge that lets the document win where it sets a field.
MergePolicyRules_DocumentWins(base, override) ==
    IF ~override.defined THEN base
    ELSE [allowedTools |-> IF base.allowedTools.defined
                           THEN base.allowedTools
                           ELSE override.value.allowedTools,
          fileScopes |-> IF base.fileScopes.defined
                         THEN base.fileScopes
                         ELSE override.value.fileScopes,
          responseRequirements |-> IF base.responseRequirements.defined
                                   THEN base.responseRequirements
                                   ELSE override.value.responseRequirements,
          unknownKey |-> FALSE]

\* mergePolicyRules(base, override)
MergePolicyRules(base, override) ==
    IF ~override.defined THEN base
    ELSE [allowedTools |-> IF override.value.allowedTools.defined
                           THEN override.value.allowedTools
                           ELSE base.allowedTools,
          fileScopes |-> IF override.value.fileScopes.defined
                         THEN override.value.fileScopes
                         ELSE base.fileScopes,
          responseRequirements |->
                IF override.value.responseRequirements.defined
                THEN override.value.responseRequirements
                ELSE base.responseRequirements,
          unknownKey |-> FALSE]

\* normalizePolicySource(source): undefined, or { path?, rules? }.
NormalizePolicySource(source) ==
    IF source.kind = "undefined"
    THEN [defined |-> FALSE, path |-> FALSE, rules |-> NoRules]
    ELSE IF HasRulesKey(source.rules.value) /\ source.kind = "rules"
    THEN [defined |-> TRUE, path |-> FALSE, rules |-> source.rules]
    ELSE [defined |-> TRUE, path |-> source.path, rules |-> source.rules]

\* loadDeclarativePolicy throws.
Threw(error) == [kind |-> "threw", error |-> error, policy |-> NoPolicy]

\* The end of loadDeclarativePolicy, from `if (!mergedRules)` on.
BuildPolicy(mergedRules, random) ==
    IF ~mergedRules.defined
    THEN [kind |-> "undefined", error |-> Null, policy |-> NoPolicy]
    ELSE IF ~SchemaAccepts(mergedRules.value)
    THEN Threw("Invalid declarative policy configuration")
    ELSE [kind |-> "policy", error |-> Null,
          policy |-> NewPolicy(mergedRules.value, ProjectRoot, random)]

\* loadDeclarativePolicy(source, options), up to the await on readTextFile
\* or, when no path is given, to its end.
LoadDeclarativePolicy ==
    /\ policyLoad.pc = "idle"
    /\ \E source \in PolicySources :
        LET normalized == NormalizePolicySource(source)
        IN  \E random \in RandomDraws(ScopesOf(normalized.rules.value)) :
            policyLoad' =
                IF ~normalized.defined
                THEN [policyLoad EXCEPT
                        !.pc = "done", !.source = source,
                        !.outcome = [kind |-> "undefined", error |-> Null,
                                     policy |-> NoPolicy]]
                ELSE IF normalized.path
                THEN [policyLoad EXCEPT !.pc = "reading", !.source = source]
                ELSE [policyLoad EXCEPT
                        !.pc = "done", !.source = source,
                        !.outcome = BuildPolicy(normalized.rules, random)]
    /\ UNCHANGED besidesPolicyLoad

\* await options.readTextFile(absolutePath) rejects.
ReadTextFileRejects ==
    /\ policyLoad.pc = "reading"
    /\ policyLoad' = [policyLoad EXCEPT
                        !.pc = "done",
                        !.text = [kind |-> "rejects", document |-> EmptyRules],
                        !.outcome =
                            Threw("Failed to read declarative policy file")]
    /\ UNCHANGED besidesPolicyLoad

\* await options.readTextFile(absolutePath) resolves: the text is parsed,
\* checked against the schema and merged with the inline rules.
ReadTextFileResolves ==
    /\ policyLoad.pc = "reading"
    /\ \E text \in PolicyTexts :
        LET parsed == ParsePolicyDocument(text)
            normalized == NormalizePolicySource(policyLoad.source)
            merged == MergePolicyRules(parsed.value, normalized.rules)
        IN  \E random \in RandomDraws(ScopesOf(merged)) :
            policyLoad' = [policyLoad EXCEPT
                !.pc = "done",
                !.text = text,
                !.outcome =
                    IF parsed.threw THEN Threw("parse error")
                    ELSE IF ~SchemaAccepts(parsed.value)
                    THEN Threw("Invalid declarative policy file")
                    ELSE BuildPolicy([defined |-> TRUE, value |-> merged],
                                     random)]
    /\ UNCHANGED besidesPolicyLoad

(* ------------------------------------------------ the VerificationService *)
\* Texts are the sequences of their characters.
MAX_QUERY_LENGTH == 256

MAX_SNIPPET_LENGTH == 400

\* The characters that \s and trim() take for white space.
Whitespace == {" ", "\n"}

\* The character U+2026 that truncate and buildQuery end a cut text with.
Ellipsis == "..."

RECURSIVE TrimStart(_)
TrimStart(text) ==
    IF text # <<>> /\ Head(text) \in Whitespace THEN TrimStart(Tail(text))
    ELSE text

RECURSIVE TrimEnd(_)
TrimEnd(text) ==
    IF text # <<>> /\ text[Len(text)] \in Whitespace
    THEN TrimEnd(SubSeq(text, 1, Len(text) - 1))
    ELSE text

\* text.trim()
Trim(text) == TrimEnd(TrimStart(text))

\* text.replace(/\s+/g, ' '): every run of white space becomes one space.
\* The text is collapsed by halves; a run that spans the cut is one run.
RECURSIVE CollapseWhitespace(_)
CollapseWhitespace(text) ==
    IF text = <<>> THEN <<>>
    ELSE IF Len(text) = 1
    THEN (IF text[1] \in Whitespace THEN <<" ">> ELSE text)
    ELSE LET half == Len(text) \div 2
             left == CollapseWhitespace(SubSeq(text, 1, half))
             right == CollapseWhitespace(SubSeq(text, half + 1, Len(text)))
         IN  IF left[Len(left)] = " " /\ right[1] = " "
             THEN left \o Tail(right)
             ELSE left \o right

\* truncate(value, maxLength)
Truncate(value, maxLength) ==
    IF Len(value) <= maxLength THEN value
    ELSE Append(SubSeq(value, 1, maxLength - 1), Ellipsis)

\* buildQuery(response, reason)
BuildQuery(response, reason) ==
    LET base == IF reason.defined /\ reason.value # <<>>
                THEN reason.value \o <<":", " ">> \o response
                ELSE response
        normalised == Trim(CollapseWhitespace(base))
    IN  IF Len(normalised) <= MAX_QUERY_LENGTH THEN normalised
        ELSE Append(SubSeq(normalised, 1, MAX_QUERY_LENGTH - 1), Ellipsis)

\* quoteSnippet(snippet): the quoted text, empty when there is none.
QuoteSnippet(snippet) == CollapseWhitespace(Trim(snippet))

\* formatSources(sources): one numbered line per source.
FormatSources(sources) ==
    [i \in 1 .. Len(sources) |->
        [index |-> i,
         title |-> IF sources[i].title = Undefined THEN "Untitled"
                   ELSE sources[i].title,
         uri |-> IF sources[i].uri = Undefined THEN "No URI available"
                 ELSE sources[i].uri]]

\* input.finalText: empty, white space only, a short text with white space
\* around it, and a text longer than MAX_SNIPPET_LENGTH.
FinalTexts ==
    {<<>>, <<" ", "\n">>, <<" ", "o", "k", "\n">>,
     [i \in 1 .. (MAX_SNIPPET_LENGTH + 1) |-> "x"]}

\* input.reason: undefined or a reason.
Reasons == {Absent, Some(<<"w", "h", "y">>)}

\* registry.getTool(WEB_SEARCH_TOOL_NAME): the lookup raises, finds no tool,
\* or finds the tool.
Lookups == {"raises", "missing", "found"}

\* tool.build({ query }) raises or returns the invocation.
Builds == {"raises", "built"}

\* One grounding source of a search result: source.web?.title and
\* source.web?.uri, when there are any.
SearchSources ==
    {[title |-> "Example", uri |-> "https://example.com"],
     [title |-> Undefined, uri |-> Undefined]}

\* What invocation.execute resolves with: llmContent and optional sources.
SearchResults ==
    [llmContent : {<<>>, <<" ", "h", "i">>},
     sources : {Absent}
               \cup {Some(list) :
                        list \in UNION {[1 .. n -> SearchSources] :
                                            n \in 0 .. MaxSources}}]

\* The one assertion of a result.
Assertion(text, grounded, sources, snippet, note) ==
    [assertion |-> text, grounded |-> grounded, sources |-> sources,
     snippet |-> snippet, note |-> note]

\* A result in which the list of assertions is left empty.
Result_NoAssertion(status, reason, query, summaryText, assertion) ==
    [required |-> TRUE, status |-> status, reason |-> reason, query |-> query,
     summaryText |-> summaryText, assertions |-> <<>>]

\* The VerificationResult that verify returns: required, status, reason,
\* query, summaryText and a list of one assertion.
Result(status, reason, query, summaryText, assertion) ==
    [required |-> TRUE, status |-> status, reason |-> reason, query |-> query,
     summaryText |-> summaryText, assertions |-> <<assertion>>]

\* A summary of a warning line only.
Warning(headline) == [headline |-> headline, snippet |-> <<>>, sources |-> <<>>]

\* The result for a response without text.
EmptyResponse ==
    Result("uncertain", Some(<<"empty_response">>), Absent,
           Warning("Unable to verify because no response text was produced."),
           Assertion(<<>>, FALSE, <<>>, Absent,
                     "No response text available to verify."))

\* The result of a failure before or during the search.
Uncertain(reason, query, normalizedText, headline, note) ==
    Result("uncertain", Some(<<reason>>), Some(query), Warning(headline),
           Assertion(Truncate(normalizedText, MAX_SNIPPET_LENGTH), FALSE,
                     <<>>, Absent, note))

\* A test of the sources that never finds the list empty.
NoSources_Never(sources) == FALSE

\* sources.length === 0
NoSources(sources) == Len(sources) = 0

\* The result when invocation.execute has resolved with result.
Searched(v, query, normalizedText, result) ==
    LET snippet == Truncate(Trim(result.llmContent), MAX_SNIPPET_LENGTH)
        sources == [i \in 1 .. Len(result.sources.value) |->
                        result.sources.value[i]]
    IN  IF NoSources(sources)
        THEN Result("uncertain", Some(<<"no_sources">>), Some(query),
                    Warning("No supporting sources were returned."),
                    Assertion(Truncate(normalizedText, MAX_SNIPPET_LENGTH),
                              FALSE, <<>>, Some(snippet),
                              "Web search returned no grounding sources."))
        ELSE Result("grounded", v.reason, Some(query),
                    [headline |-> "Grounded with supporting sources.",
                     count |-> Len(sources),
                     snippet |-> QuoteSnippet(snippet),
                     sources |-> FormatSources(sources)],
                    Assertion(Truncate(normalizedText, MAX_SNIPPET_LENGTH),
                              TRUE, sources, Some(snippet), Undefined))

\* An abort test that takes no signal for aborted.
CombinedAborted_Never(v) == FALSE

\* combinedSignal.aborted: AbortSignal.any([input.signal, controller.signal])
CombinedAborted(v) == v.callerAborted \/ v.controller = "aborted"

\* The result when invocation.execute has raised.
SearchRaised(v, query, normalizedText) ==
    IF CombinedAborted(v)
    THEN Uncertain("aborted", query, normalizedText,
                   "Verification cancelled before completion.",
                   "Verification aborted.")
    ELSE Uncertain("web_search_failed", query, normalizedText,
                   "Verification failed: error", "Verification failed: error")

\* A return that leaves the controller as it is.
Returns_NoAbort(v, result, events) ==
    [v EXCEPT !.pc = "done",
              !.outcome = [kind |-> "returned", result |-> result],
              !.events = @ \o events \o <<"return">>]

\* verify returns result; on the way out of the try the finally block
\* aborts the controller.
Returns(v, result, events) ==
    [v EXCEPT !.pc = "done",
              !.outcome = [kind |-> "returned", result |-> result],
              !.controller = IF @ = "none" THEN "none" ELSE "aborted",
              !.events = @ \o events
                           \o (IF v.controller = "none" THEN <<>>
                               ELSE <<"controller.abort">>)
                           \o <<"return">>]

\* verify(input) from its start to the await on invocation.execute, or to
\* its end when it does not get that far.
Started(v, finalText, reason, lookup, build) ==
    LET normalizedText == Trim(finalText)
        query == BuildQuery(normalizedText, reason)
        called == [v EXCEPT !.finalText = finalText, !.reason = reason,
                            !.collaborators =
                                [lookup |-> lookup, build |-> build]]
        lookedUp == [called EXCEPT !.lookup = lookup]
        built == [lookedUp EXCEPT !.build = build]
    IN  IF normalizedText = <<>> THEN Returns(called, EmptyResponse, <<>>)
        ELSE IF lookup = "raises"
        THEN [lookedUp EXCEPT
                !.pc = "done",
                !.outcome = [kind |-> "raised", result |-> NoResult],
                !.events = <<"getTool", "raise">>]
        ELSE IF lookup = "missing"
        THEN Returns(lookedUp,
                     Uncertain("missing_web_search_tool", query,
                               normalizedText,
                               "Web search tool is unavailable.",
                               "Web search tool not registered in tool registry."),
                     <<"getTool">>)
        ELSE IF build = "raises"
        THEN Returns(built,
                     Uncertain("web_search_build_failed", query,
                               normalizedText,
                               "Unable to prepare verification search: error",
                               "Unable to prepare verification search: error"),
                     <<"getTool", "build">>)
        ELSE [built EXCEPT !.pc = "executing", !.controller = "created",
                           !.search = "started",
                           !.events = <<"getTool", "build", "execute">>]

\* verify(input) is called.
Verify ==
    /\ verifyCall.pc = "idle"
    /\ \E finalText \in FinalTexts, reason \in Reasons,
          lookup \in Lookups, build \in Builds :
        verifyCall' = Started(verifyCall, finalText, reason, lookup, build)
    /\ UNCHANGED besidesVerifyCall

\* The caller aborts input.signal: before verify is called or while the
\* search runs.
CallerCancels ==
    /\ verifyCall.pc \in {"idle", "executing"}
    /\ ~verifyCall.callerAborted
    /\ verifyCall' = [verifyCall EXCEPT !.callerAborted = TRUE]
    /\ UNCHANGED besidesVerifyCall

\* await invocation.execute(combinedSignal) resolves.
ExecuteResolves ==
    /\ verifyCall.pc = "executing"
    /\ \E result \in SearchResults :
        LET normalizedText == Trim(verifyCall.finalText)
            query == BuildQuery(normalizedText, verifyCall.reason)
            found == [verifyCall EXCEPT !.search = "returned",
                                        !.found = result.sources]
        IN  verifyCall' = Returns(found,
                                  Searched(found, query, normalizedText,
                                           result),
                                  <<"executeReturned">>)
    /\ UNCHANGED besidesVerifyCall

\* await invocation.execute(combinedSignal) rejects.
ExecuteRejects ==
    /\ verifyCall.pc = "executing"
    /\ LET normalizedText == Trim(verifyCall.finalText)
           query == BuildQuery(normalizedText, verifyCall.reason)
           raised == [verifyCall EXCEPT !.search = "raised"]
       IN  verifyCall' = Returns(raised,
                                 SearchRaised(raised, query, normalizedText),
                                 <<"executeRaised">>)
    /\ UNCHANGED besidesVerifyCall

(* ------------------------------------------- the operations on the chat *)
\* A flag that an operation leaves as it finds it.
ForceFullIdeContextUpdate_Keeps == forceFullIdeContext

\* forceFullIdeContextUpdate(): this.forceFullIdeContext = true
ForceFullIdeContextUpdate == TRUE

\* No sendMessageStream call is running.
Quiescent == \A p \in Procs : ~Active(p)

\* The GeminiChat that startChat builds on a history.
NewChat(history) == [id |-> 0 - (lifecycle.ops + 1), history |-> history]

\* The operation op is counted.
Operated(op) == [lifecycle EXCEPT !.op = op, !.ops = @ + 1]

\* What the operations on the chat leave alone.
besidesChat ==
    <<config, sessionTurnCount, lastPromptId, currentSequenceModel,
      quotaErrorOccurred, call, series, overlapped, besidesLifecycle>>

\* initialize(): this.chat = await this.startChat()
Initialize ==
    /\ Quiescent
    /\ lifecycle.ops < MaxOperations
    /\ chat' = NewChat(<<>>)
    /\ forceFullIdeContext' = ForceFullIdeContextUpdate
    /\ hasFailedCompressionAttempt' = FALSE
    /\ lifecycle' = Operated("initialize")
    /\ UNCHANGED <<lastSentIdeContext, besidesChat>>

\* resetChat(): a new chat, then forceFullIdeContextUpdate()
ResetChat ==
    /\ Quiescent
    /\ lifecycle.ops < MaxOperations
    /\ chat' = NewChat(<<>>)
    /\ forceFullIdeContext' = ForceFullIdeContextUpdate
    /\ hasFailedCompressionAttempt' = FALSE
    /\ lifecycle' = Operated("resetChat")
    /\ UNCHANGED <<lastSentIdeContext, besidesChat>>

\* resumeChat(history): a new chat on the history, then
\* forceFullIdeContextUpdate()
ResumeChat(P) ==
    /\ Quiescent
    /\ lifecycle.ops < MaxOperations
    /\ \E history \in P.histories : chat' = NewChat(history)
    /\ forceFullIdeContext' = ForceFullIdeContextUpdate
    /\ hasFailedCompressionAttempt' = FALSE
    /\ lifecycle' = Operated("resumeChat")
    /\ UNCHANGED <<lastSentIdeContext, besidesChat>>

\* setHistory(history): the history of the chat is replaced, then
\* forceFullIdeContextUpdate()
SetHistory(P) ==
    /\ Quiescent
    /\ lifecycle.ops < MaxOperations
    /\ \E history \in P.histories : chat' = [chat EXCEPT !.history = history]
    /\ forceFullIdeContext' = ForceFullIdeContextUpdate
    /\ lifecycle' = Operated("setHistory")
    /\ UNCHANGED <<lastSentIdeContext, hasFailedCompressionAttempt,
                   besidesChat>>

\* tryCompressChat(promptId, force) called from outside sendMessageStream.
TryCompressChat(P) ==
    /\ Quiescent
    /\ lifecycle.ops < MaxOperations
    /\ \E force \in BOOLEAN, status \in P.compression :
        LET info == CompressionResult(status)
        IN  /\ hasFailedCompressionAttempt'
                    = CompressionFailureAfter(info, force)
            /\ chat' = IF StartsNewChat(info) THEN NewChat(info.newHistory)
                       ELSE chat
            /\ forceFullIdeContext' =
                    IF StartsNewChat(info) THEN ForceFullIdeContextUpdate
                    ELSE forceFullIdeContext
            /\ lifecycle' =
                    [Operated("tryCompressChat") EXCEPT !.attempt =
                        Attempt(force, HasCompressionFailure, status)]
    /\ UNCHANGED <<lastSentIdeContext, besidesChat>>

(* ---------------------------------------------- the ModelRouterService *)
\* config.getApprovalMode(): a mode that asks for no verification, and
\* ApprovalMode.AUTO_EDIT.
ApprovalModes == {"DEFAULT", "AUTO_EDIT"}

\* The reason the policy overlay gives for the verification it forces.
POLICY_AUTO_EDIT == "policy_auto_edit"

\* metadata.verificationReason of the chain: none, or one reason. A reason
\* is the list of its parts, the separator ';' being a part.
ChainReasons == {Absent, Some(<<"classifier_complexity">>)}

\* What the strategy chain resolves with.
ChainDecisions ==
    [model : Models,
     metadata : [source : {"agent-router/fallback", "agent-router/classifier",
                           "agent-router/default"},
                 latencyMs : {10, 20},
                 reasoning : {"Strategy reasoning"},
                 requiresVerification : BOOLEAN,
                 verificationReason : ChainReasons]]

\* What the strategy chain rejects with.
ChainErrors == {"Strategy failed", "classifier timed out"}

\* The approval mode demands verification.
DemandsVerification(approvalMode) == approvalMode = "AUTO_EDIT"

\* A merge in which the policy reason replaces the reason of the chain.
MergeVerificationReasons_PolicyOnly(existing, policyReason) ==
    Some(<<policyReason>>)

\* The reasons joined with ';': the reason of the chain first, the policy
\* reason appended; the policy reason alone when the chain gave none.
MergeVerificationReasons(existing, policyReason) ==
    IF existing.defined
    THEN Some(existing.value \o <<";", policyReason>>)
    ELSE Some(<<policyReason>>)

\* The policy overlay on the decision of the chain.
ApplyPolicyOverlay(decision, approvalMode) ==
    IF DemandsVerification(approvalMode)
    THEN [decision EXCEPT
            !.metadata.requiresVerification = TRUE,
            !.metadata.verificationReason =
                MergeVerificationReasons(@, POLICY_AUTO_EDIT)]
    ELSE decision

\* new ModelRoutingEvent(model, source, latencyMs, reasoning,
\*                       requiresVerification, verificationReason, failed,
\*                       errorMessage)
ModelRoutingEvent(model, metadata, failed, errorMessage) ==
    [model |-> model, source |-> metadata.source,
     latencyMs |-> metadata.latencyMs, reasoning |-> metadata.reasoning,
     requiresVerification |-> metadata.requiresVerification,
     verificationReason |-> metadata.verificationReason,
     failed |-> failed, errorMessage |-> errorMessage]

\* The event of a failure that is logged as if routing had succeeded.
FailureEvent_NotFailed(defaultModel, error) ==
    ModelRoutingEvent(defaultModel,
                      [NoDecision.metadata EXCEPT
                          !.source = "router-exception",
                          !.reasoning = "An exception occurred during routing."],
                      FALSE, Undefined)

\* The event logged when the chain has raised: the default model of the
\* session stands in for the model that was not chosen.
FailureEvent(defaultModel, error) ==
    ModelRoutingEvent(defaultModel,
                      [NoDecision.metadata EXCEPT
                          !.source = "router-exception",
                          !.reasoning = "An exception occurred during routing."],
                      TRUE, error)

\* route(context) is called and awaits the strategy chain.
RouterRoute ==
    /\ routeCall.pc = "idle"
    /\ \E approvalMode \in ApprovalModes, defaultModel \in Models :
        routeCall' = [routeCall EXCEPT !.pc = "routing",
                                       !.approvalMode = approvalMode,
                                       !.defaultModel = defaultModel]
    /\ UNCHANGED besidesRouteCall

\* The chain resolves: the overlay is applied, the event logged and the
\* decision returned.
ChainDecides ==
    /\ routeCall.pc = "routing"
    /\ \E chosen \in ChainDecisions :
        LET decision == ApplyPolicyOverlay(chosen, routeCall.approvalMode)
        IN  routeCall' =
                [routeCall EXCEPT
                    !.pc = "done",
                    !.chain = [kind |-> "resolved", decision |-> chosen,
                               error |-> Null],
                    !.telemetry =
                        Append(@, ModelRoutingEvent(decision.model,
                                                    decision.metadata, FALSE,
                                                    Undefined)),
                    !.outcome = [kind |-> "returned", decision |-> decision,
                                 error |-> Null]]
    /\ UNCHANGED besidesRouteCall

\* The chain rejects: the failure is logged and the error raised again.
ChainRaises ==
    /\ routeCall.pc = "routing"
    /\ \E error \in ChainErrors :
        routeCall' =
            [routeCall EXCEPT
                !.pc = "done",
                !.chain = [kind |-> "rejected", decision |-> NoDecision,
                           error |-> error],
                !.telemetry =
                    Append(@, FailureEvent(routeCall.defaultModel, error)),
                !.outcome = [kind |-> "raised", decision |-> NoDecision,
                             error |-> error]]
    /\ UNCHANGED besidesRouteCall

(* ------------------------------------------------------ the /mode command *)
\* SessionMode
SessionModes == {"plan", "build"}

\* The lower-case form of one character.
ToLowerChar(c) ==
    CASE c = "A" -> "a" [] c = "B" -> "b" [] c = "D" -> "d" [] c = "I" -> "i"
      [] c = "L" -> "l" [] c = "N" -> "n" [] c = "P" -> "p" [] c = "U" -> "u"
      [] OTHER -> c

\* text.toLowerCase()
ToLowerCase(text) == [i \in 1 .. Len(text) |-> ToLowerChar(text[i])]

\* The arguments typed after /mode: none, white space only, the two modes in
\* several spellings, and texts that name no mode.
RawArgs ==
    {<<>>, <<" ">>,
     <<"p", "l", "a", "n">>, <<"b", "u", "i", "l", "d">>,
     <<" ", "B", "u", "i", "l", "d", "\n">>, <<"P", "L", "A", "N">>,
     <<"d", "e", "v">>, <<"p", "l", "a", "n", " ", "b", "u", "i", "l", "d">>}

\* formatMode(mode)
FormatMode(mode) == IF mode = "build" THEN "Build" ELSE "Plan"

\* A test that takes any argument for the name of a mode.
NamesMode_Always(args) == TRUE

\* not (args !== 'plan' && args !== 'build')
NamesMode(args) ==
    args = <<"p", "l", "a", "n">> \/ args = <<"b", "u", "i", "l", "d">>

\* args === 'plan' ? SessionMode.PLAN : SessionMode.BUILD
TargetMode(args) == IF args = <<"p", "l", "a", "n">> THEN "plan" ELSE "build"

\* The message a command returns.
Message(messageType, content) ==
    [type |-> "message", messageType |-> messageType, content |-> content]

\* context.session.setMode(targetMode): the session takes the mode.
SetMode(s, targetMode) ==
    [s EXCEPT !.mode = targetMode, !.setModeCalls = Append(@, targetMode)]

\* modeCommand.action(context, rawArgs) on the session s.
ModeAction(s, rawArgs) ==
    LET args == ToLowerCase(Trim(rawArgs))
        currentMode == s.mode
        targetMode == TargetMode(args)
    IN  IF args = <<>>
        THEN [s EXCEPT !.result =
                Message("info", <<"Current mode", FormatMode(currentMode)>>)]
        ELSE IF ~NamesMode(args)
        THEN [s EXCEPT !.result = Message("error", <<"Invalid mode">>)]
        ELSE IF targetMode = currentMode
        THEN [s EXCEPT !.result =
                Message("info", <<"Already in", FormatMode(currentMode)>>)]
        ELSE [SetMode(s, targetMode) EXCEPT !.result =
                Message("info",
                        <<FormatMode(targetMode), "mode enabled">>)]

\* The user runs /mode with some arguments.
ModeCommand ==
    /\ session.commands < MaxCommands
    /\ \E rawArgs \in RawArgs :
        session' =
            ModeAction([session EXCEPT
                            !.commands = @ + 1,
                            !.rawArgs = rawArgs,
                            !.before = [mode |-> session.mode,
                                        setModeCalls |->
                                            session.setModeCalls]],
                       rawArgs)
    /\ UNCHANGED besidesSession

(* ---------------------------------------------------- the specifications *)
\* The steps of sendMessageStream on caller task p.
Drive(p, P) ==
    \/ StartCall(p, P)
    \/ Compress(p, P)
    \/ TurnStarted(p, P)
    \/ Route(p, P)
    \/ RouteFails(p)
    \/ StreamEvent(p, P)
    \/ StreamEnd(p)
    \/ NextSpeaker(p, P)
    \/ Resume(p)

\* A session: one caller task sends several requests, one after the other, under
\* either prompt id, with or without a session-turn cap.
Session ==
    [overlap |-> FALSE, prompts |-> PromptIds, budgets |-> 0 .. MaxBudget,
     aborted |-> {FALSE}, lengths |-> {8},
     remaining |-> {1000}, compression |-> {"COMPRESSED", "NOOP"},
     loops |-> BOOLEAN, models |-> Models,
     events |-> {"Content", "Error", "InvalidStream:MALFORMED_CONTENT"},
     speakers |-> {"model", "user"},
     maxStream |-> 1, maxSessionCalls |-> MaxSessionCalls,
     histories |-> {<<>>}, ideContexts |-> {Undefined},
     partsEmpty |-> {TRUE},
     configs |-> [maxSessionTurns : SessionTurnCaps,
                  continueOnFailedApiCall : BOOLEAN,
                  skipNextSpeakerCheck : {FALSE},
                  ideMode : {FALSE}]]

Init == InitWith(Session)

Next == Drive(1, Session)

Spec == Init /\ [][Next]_vars

\* One request: every event the stream can hand over, every configuration of
\* the recovery and next-speaker settings, a caller that may abort and a quota
\* error that may be recorded.
OneTurn ==
    [overlap |-> FALSE, prompts |-> {"prompt-1"}, budgets |-> 0 .. MaxBudget,
     aborted |-> BOOLEAN, lengths |-> UserRequestLengths,
     remaining |-> RemainingTokens, compression |-> {"COMPRESSED", "NOOP"},
     loops |-> BOOLEAN, models |-> {"gemini-pro"},
     events |-> StreamEventTypes, speakers |-> {"model", "user"},
     maxStream |-> MaxStream, maxSessionCalls |-> 1,
     histories |-> {<<>>}, ideContexts |-> {Undefined},
     partsEmpty |-> {TRUE},
     configs |-> [maxSessionTurns : {0},
                  continueOnFailedApiCall : BOOLEAN,
                  skipNextSpeakerCheck : BOOLEAN,
                  ideMode : {FALSE}]]

InitTurn == InitWith(OneTurn)

NextTurn ==
    \/ Drive(1, OneTurn)
    \/ AbortCaller(1)
    \/ QuotaError(1)

SpecTurn == InitTurn /\ [][NextTurn]_vars

\* One request with a small budget, the default budget (MAX_TURNS) or a budget
\* above it, in a session without a cap, where recovery is enabled and the
\* next-speaker check may always answer 'model'.
Budgeted ==
    [overlap |-> FALSE, prompts |-> {"prompt-1"},
     budgets |-> {0, 1, MaxBudget, MAX_TURNS, MAX_TURNS + 1},
     aborted |-> {FALSE}, lengths |-> {8}, remaining |-> {1000},
     compression |-> {"NOOP"}, loops |-> {FALSE}, models |-> {"gemini-pro"},
     events |-> {"Content", "InvalidStream:MALFORMED_CONTENT"},
     speakers |-> {"model", "user"},
     maxStream |-> 1, maxSessionCalls |-> 1,
     histories |-> {<<>>}, ideContexts |-> {Undefined},
     partsEmpty |-> {TRUE},
     configs |-> [maxSessionTurns : {0},
                  continueOnFailedApiCall : {TRUE},
                  skipNextSpeakerCheck : {FALSE},
                  ideMode : {FALSE}]]

InitBudget == InitWith(Budgeted)

NextBudget == Drive(1, Budgeted)

\* Every await of the driver is eventually answered and the consumer keeps
\* pulling the generator, so a step that can be taken is taken.
SpecBudget == InitBudget /\ [][NextBudget]_vars /\ WF_vars(NextBudget)

\* Two caller tasks on one session whose calls may overlap, each with its own
\* prompt id choice and a budget of one turn.
Overlapping ==
    [overlap |-> TRUE, prompts |-> PromptIds, budgets |-> {1},
     aborted |-> {FALSE}, lengths |-> {8}, remaining |-> {1000},
     compression |-> {"NOOP"}, loops |-> {FALSE}, models |-> Models,
     events |-> {"Content"}, speakers |-> {"model", "user"},
     maxStream |-> 1, maxSessionCalls |-> MaxSessionCalls,
     histories |-> {<<>>}, ideContexts |-> {Undefined},
     partsEmpty |-> {TRUE},
     configs |-> [maxSessionTurns : {0},
                  continueOnFailedApiCall : {TRUE},
                  skipNextSpeakerCheck : {FALSE},
                  ideMode : {FALSE}]]

InitOverlap == InitWith(Overlapping)

NextOverlap == \E p \in Procs : Drive(p, Overlapping)

SpecOverlap == InitOverlap /\ [][NextOverlap]_vars

\* A session in which the chat has a history, compression can answer with any
\* status, IDE mode may be on and the IDE context changes between calls.
Context ==
    [overlap |-> FALSE, prompts |-> {"prompt-1"}, budgets |-> {0, 1},
     aborted |-> {FALSE}, lengths |-> UserRequestLengths,
     remaining |-> RemainingTokens, compression |-> CompressionStatuses,
     loops |-> BOOLEAN, models |-> {"gemini-pro"},
     events |-> {"Content"}, speakers |-> {"model", "user"},
     maxStream |-> 1, maxSessionCalls |-> 2,
     histories |-> Histories, ideContexts |-> IdeContexts,
     partsEmpty |-> BOOLEAN,
     configs |-> [maxSessionTurns : SessionTurnCaps,
                  continueOnFailedApiCall : {FALSE},
                  skipNextSpeakerCheck : {FALSE},
                  ideMode : BOOLEAN]]

InitContext == InitWith(Context)

NextContext == Drive(1, Context)

SpecContext == InitContext /\ [][NextContext]_vars

\* A driver that is not in use, next to the component under study.
Quiet ==
    [histories |-> {<<>>},
     configs |-> [maxSessionTurns : {0}, continueOnFailedApiCall : {FALSE},
                  skipNextSpeakerCheck : {FALSE}, ideMode : {FALSE}]]

\* One run() on one RetryController, with any options, any number of chunks
\* per attempt up to MaxChunks and any outcome of each attempt.
InitRetry == InitWith(Quiet)

NextRetry ==
    \/ Run
    \/ AttemptFactory
    \/ AttemptFactoryFails
    \/ StreamChunk
    \/ StreamCompletes
    \/ StreamThrows
    \/ DelayElapses

SpecRetry == InitRetry /\ [][NextRetry]_vars

\* One DeclarativeTaskPolicy built from any rules, and any tool calls put
\* to it.
InitPolicy == InitWith(Quiet)

\* Any rules under either project root, and any locations.
AnyPolicy ==
    [rules |-> PolicyRules, projectRoots |-> ProjectRoots,
     locations |-> Locations]

NextPolicy ==
    \/ NewDeclarativeTaskPolicy(AnyPolicy)
    \/ Validate(AnyPolicy)

SpecPolicy == InitPolicy /\ [][NextPolicy]_vars

\* The policies that have something to describe: any allow-list, no scope,
\* two scopes without a name or the named scope, with and without response
\* requirements; the tool calls report locations under src or the README.
Described ==
    [rules |-> [allowedTools : AllowedToolsRules,
                fileScopes :
                    {Absent,
                     Some(<<[include |-> <<<<"**">>>>,
                             exclude |-> Some(<<<<"src", "**">>>>)],
                            [include |-> <<<<"src", "vendor", "**">>>>,
                             exclude |-> Absent]>>),
                     Some(<<NamedScope>>)},
                responseRequirements : ResponseRequirementsRules],
     projectRoots |-> {ProjectRoot},
     locations |-> UNION {[1 .. n -> {<<"workspace", "src", "index.ts">>,
                                      <<"workspace", "README.md">>}] :
                            n \in 0 .. MaxLocations}]

\* One policy, described up to MaxDescribes times, before and after a call
\* of validateToolCall.
InitDescribe == InitWith(Quiet)

NextDescribe ==
    \/ NewDeclarativeTaskPolicy(Described)
    \/ Validate(Described)
    \/ Describe

SpecDescribe == InitDescribe /\ [][NextDescribe]_vars

\* One call of loadDeclarativePolicy with any source and any policy file.
InitLoad == InitWith(Quiet)

NextLoad ==
    \/ LoadDeclarativePolicy
    \/ ReadTextFileRejects
    \/ ReadTextFileResolves

SpecLoad == InitLoad /\ [][NextLoad]_vars

\* One call of verify, with any input, any behaviour of the tool registry,
\* the builder and the search, and the caller cancelling at any time.
InitVerify == InitWith(Quiet)

NextVerify ==
    \/ Verify
    \/ CallerCancels
    \/ ExecuteResolves
    \/ ExecuteRejects

SpecVerify == InitVerify /\ [][NextVerify]_vars

\* One call of route under any approval mode, with any decision or failure
\* of the strategy chain.
InitRoute == InitWith(Quiet)

NextRoute ==
    \/ RouterRoute
    \/ ChainDecides
    \/ ChainRaises

SpecRoute == InitRoute /\ [][NextRoute]_vars

\* Turns of one caller with IDE mode and compression free, and between the
\* turns any operation on the chat.
Maintained ==
    [overlap |-> FALSE, prompts |-> {"prompt-1"}, budgets |-> {1},
     aborted |-> {FALSE}, lengths |-> {8}, remaining |-> {1000},
     compression |-> CompressionStatuses,
     loops |-> {FALSE}, models |-> {"gemini-pro"},
     events |-> {"Content"}, speakers |-> {"model", "user"},
     maxStream |-> 1, maxSessionCalls |-> 2,
     histories |-> {<<>>, <<"user", "model">>},
     ideContexts |-> {Undefined, "ide-context-1"},
     partsEmpty |-> {FALSE},
     configs |-> [maxSessionTurns : {0},
                  continueOnFailedApiCall : {FALSE},
                  skipNextSpeakerCheck : {FALSE},
                  ideMode : {TRUE}]]

InitChat == InitWith(Maintained)

NextChat ==
    \/ Drive(1, Maintained)
    \/ Initialize
    \/ ResetChat
    \/ ResumeChat(Maintained)
    \/ SetHistory(Maintained)
    \/ TryCompressChat(Maintained)

SpecChat == InitChat /\ [][NextChat]_vars

\* A session in which the user runs /mode commands.
InitMode == InitWith(Quiet)

NextMode == ModeCommand

SpecMode == InitMode /\ [][NextMode]_vars

(* ------------------------------------------------------------ the claims *)
\* The frames whose own record is kept: not idle, not a resumed ancestor.
Frames == {p \in Procs : call[p].pc # "idle" /\ ~call[p].resumed}

StreamEventsOf(out) == SelectSeq(out, LAMBDA e : e \in StreamEventTypes)

\* C1, as stated: in a series of calls that carry one promptId the Routing
\* Pipeline is invoked at most once.
C1_RouterInvokedAtMostOnce == series.routeCalls <= 1

\* C1, amended: in a series of non-overlapping calls and continuations that
\* carry one promptId the router returns at most one decision, it is invoked
\* only while no decision has been returned in the series, every model dispatch
\* of the series uses the model of that decision, and the sticky model is
\* cleared only by a call whose promptId differs from the last one seen.
C1_OneDecisionPerSeries ==
    /\ [](/\ series.decisions <= 1
          /\ \A p \in Frames :
                call[p].turn = "ran" =>
                    /\ series.decisions = 1
                    /\ call[p].modelToUse = series.model
                    /\ call[p].modelToUse = currentSequenceModel)
    /\ [][series'.routeCalls > series.routeCalls => series.decisions = 0]_vars
    /\ [][(currentSequenceModel # Null /\ currentSequenceModel' = Null)
            => lastPromptId' # lastPromptId]_vars

\* C1: a continuation was dispatched with the model locked by the only
\* decision of its series, after an earlier invocation of the router raised.
C1_Witness ==
    /\ series.routeCalls = 2
    /\ series.decisions = 1
    /\ call[1].depth > 0
    /\ call[1].pc = "stream"
    /\ call[1].modelToUse = series.model

\* C2: a top-level call with turnsBudget t >= 0 dispatches the model at most
\* min(t, MAX_TURNS) times over itself and all its continuations, every
\* continuation is started with one less than its parent's bounded budget, and
\* the call terminates whatever the streams and the next-speaker checks answer.
C2_BudgetBoundsDispatches ==
    /\ [](call[1].dispatches <= Min(call[1].topTurns, MAX_TURNS))
    /\ [][call'[1].depth = call[1].depth + 1
            => call'[1].turns = Min(call[1].turns, MAX_TURNS) - 1]_vars
    /\ (Active(1) ~> ~Active(1))

\* C2: a call with a budget above MAX_TURNS has ended after exactly MAX_TURNS
\* dispatches.
C2_Witness ==
    /\ call[1].pc = "done"
    /\ call[1].topTurns = MAX_TURNS + 1
    /\ call[1].dispatches = MAX_TURNS

\* The session-turn cap is positive and the session counter is above it.
OverSessionCap ==
    /\ config.maxSessionTurns > 0
    /\ sessionTurnCount > config.maxSessionTurns

\* No compression, loop check, routing or model dispatch was done by frame c.
DidNothing(c) ==
    /\ c.pc \in {"done", "returned"}
    /\ c.turn = "empty"
    /\ c.compression = Null
    /\ c.startChecks = 0
    /\ c.modelToUse = Null
    /\ c.consumed = 0
    /\ c.nextSpeakerChecks = 0

\* C3, as stated: a call with turnsBudget 0 emits no event, whatever the
\* session turn counter and the session-turn cap are.
C3_ZeroBudgetEmitsNothing ==
    \A p \in Frames : call[p].turns = 0 => call[p].out = <<>>

\* C3, amended: a call with turnsBudget 0 returns an empty Turn without
\* compression, routing or dispatch; it emits no event when the session-turn
\* cap is not exceeded, and exactly MaxSessionTurns when it is (the cap is
\* tested before the budget).
C3_ZeroBudgetReturnsAtOnce ==
    \A p \in Frames :
        call[p].turns = 0 =>
            /\ DidNothing(call[p])
            /\ call[p].exit = IF OverSessionCap THEN "sessionCap" ELSE "budget"
            /\ call[p].out = IF OverSessionCap THEN <<"MaxSessionTurns">>
                             ELSE <<>>

\* C3: a top-level call with budget 0, late in a session, returned without an
\* event.
C3_Witness ==
    /\ call[1].pc = "done"
    /\ call[1].depth = 0
    /\ call[1].turns = 0
    /\ call[1].exit = "budget"
    /\ call[1].out = <<>>
    /\ sessionTurnCount >= 2

\* The running frame of caller task 1 delegates to a continuation in this step.
StartsContinuation == call'[1].depth = call[1].depth + 1

\* The caller of task 1 aborts its signal in this step.
CallerAborts == call'[1].signalAborted # call[1].signalAborted

HasInvalidStream(out) == \E i \in 1 .. Len(out) : IsInvalidStream(out[i])

Last(out) == out[Len(out)]

\* C4, as stated: no continuation is ever started by an InvalidStream event of
\* category SAFETY_BLOCK, whatever continueOnFailedApiCall is.
C4_NoRecoveryAfterSafetyBlock ==
    \A p \in Procs :
        ~(/\ call[p].startedBy = "InvalidStream:SAFETY_BLOCK"
          /\ call[p].request = RecoveryRequest)

\* C5: with continueOnFailedApiCall set, a call with isInvalidStreamRetry false
\* that is handed an InvalidStream event delegates at once to a continuation
\* with request 'System: Please continue.', isInvalidStreamRetry true and
\* budget boundedTurns - 1, and when that continuation has returned it returns
\* too, with no further event, stream read or next-speaker check; a call with
\* isInvalidStreamRetry true that is handed one starts nothing, logs the
\* content-retry failure exactly once and returns.
C5_OneRecoveryPerCall ==
    /\ [](\A p \in Frames :
            /\ call[p].retryFailureLogs <= 1
            /\ call[p].retryFailureLogs = 1 <=> call[p].exit = "retryFailed"
            /\ (config.continueOnFailedApiCall /\ HasInvalidStream(call[p].out))
                    => /\ call[p].isInvalidStreamRetry
                       /\ IsInvalidStream(Last(call[p].out))
                       /\ call[p].pc \in {"done", "returned"}
                       /\ call[p].exit = "retryFailed"
                       /\ call[p].nextSpeakerChecks = 0)
    /\ [][(StartsContinuation /\ call'[1].request = RecoveryRequest)
            => /\ config.continueOnFailedApiCall
               /\ call[1].pc = "stream"
               /\ ~call[1].isInvalidStreamRetry
               /\ IsInvalidStream(call'[1].startedBy)
               /\ call'[1].isInvalidStreamRetry
               /\ call'[1].turns = call[1].boundedTurns - 1]_vars
    /\ [][(call[1].pc = "returned" /\ ~CallerAborts)
            => /\ call'[1].resumed
               /\ call'[1].depth = call[1].depth - 1
               /\ call'[1].pc \in {"done", "returned"}
               /\ call'[1].out = <<>>
               /\ call'[1].consumed = 0
               /\ call'[1].nextSpeakerChecks = 0]_vars

\* C5: a recovery continuation was itself handed an InvalidStream event and
\* gave up.
C5_Witness ==
    /\ call[1].depth = 1
    /\ call[1].request = RecoveryRequest
    /\ call[1].isInvalidStreamRetry
    /\ IsInvalidStream(call[1].startedBy)
    /\ HasInvalidStream(call[1].out)
    /\ call[1].exit = "retryFailed"
    /\ call[1].retryFailureLogs = 1

\* C6: as long as no two sendMessageStream calls have been active at once on
\* the session, every dispatch uses a model that was routed for the promptId
\* of the dispatching call; two overlapping calls with different promptIds can
\* reach a dispatch that breaks this (C6_Witness).
C6_SequentialCallsKeepTheirModel ==
    \A p \in Frames :
        (call[p].turn = "ran" /\ ~overlapped)
            => /\ call[p].modelOwner = call[p].promptId
               /\ call[p].modelToUse # Null

\* C6: call 2 started with another promptId while call 1 was suspended before
\* routing; call 1 then routed, and call 2 was dispatched with call 1's model
\* without any router invocation of its own.
C6_Witness ==
    /\ overlapped
    /\ call[1].currentTurnCount < call[2].currentTurnCount
    /\ call[1].promptId # call[2].promptId
    /\ call[1].routerCalls = 1
    /\ call[2].turn = "ran"
    /\ call[2].routerCalls = 0
    /\ call[2].modelOwner = call[1].promptId
    /\ call[2].modelToUse = call[1].modelToUse

LoopExits == {"loopAtStart", "loopInStream"}

\* C7: loopDetector.turnStarted is consulted once before a turn is dispatched
\* and addAndCheck once for every event read from the model stream.  When
\* either reports a loop, LoopDetected is the last event of the call and the
\* call returns with no next-speaker check and no continuation; a loop found
\* on a stream event keeps that event back and aborts the internal controller
\* (and so the linked signal of the model call); a loop found at the start
\* comes before any model call.
C7_LoopDetectionEndsTheCall ==
    /\ [](\A p \in Frames :
            /\ call[p].startChecks <= 1
            /\ call[p].turn = "ran" => call[p].startChecks = 1
            /\ call[p].checked = call[p].consumed
            /\ call[p].exit \notin LoopExits
                    => /\ "LoopDetected" \notin
                            {call[p].out[i] : i \in 1 .. Len(call[p].out)}
                       /\ Len(StreamEventsOf(call[p].out)) = call[p].consumed
            /\ call[p].exit \in LoopExits
                    => /\ Last(call[p].out) = "LoopDetected"
                       /\ call[p].pc \in {"done", "returned"}
                       /\ call[p].nextSpeakerChecks = 0
                       /\ call[p].retryFailureLogs = 0
            /\ call[p].exit = "loopInStream"
                    => /\ call[p].turn = "ran"
                       /\ call[p].controllerAborted
                       /\ call[p].linked = "aborted"
                       /\ Len(StreamEventsOf(call[p].out))
                            = call[p].consumed - 1
            /\ call[p].exit = "loopAtStart"
                    => /\ call[p].turn = "empty"
                       /\ call[p].consumed = 0
                       /\ call[p].modelToUse = Null)
    /\ [][StartsContinuation => call[1].exit \notin LoopExits]_vars
    /\ [][(call[1].exit \in LoopExits /\ ~CallerAborts)
            => (call[1].pc = "returned" /\ call'[1].resumed)]_vars

\* C7: the second event of a model stream was reported as a loop.
C7_Witness ==
    /\ call[1].exit = "loopInStream"
    /\ call[1].consumed = 2
    /\ Len(call[1].out) >= 2
    /\ Last(call[1].out) = "LoopDetected"
    /\ call[1].out[Len(call[1].out) - 1] \in StreamEventTypes
    /\ call[1].controllerAborted

\* C8: the signal handed to turn.run is aborted exactly when the caller's
\* signal or the internal controller is; the internal controller is aborted
\* only in a call whose event-level loop check reported a loop, never by an
\* Error event, an invalid stream, the end of the stream or a continuation.
C8_OnlyLoopDetectionAbortsInternally ==
    /\ [](\A p \in Frames :
            /\ call[p].turn = "ran" => call[p].linked # "none"
            /\ call[p].linked # "none"
                    => (call[p].linked = "aborted"
                            <=> (call[p].signalAborted
                                    \/ call[p].controllerAborted))
            /\ call[p].controllerAborted
                    => /\ call[p].exit = "loopInStream"
                       /\ Last(call[p].out) = "LoopDetected")
    /\ [][StartsContinuation
            => (~call[1].controllerAborted /\ ~call'[1].controllerAborted)]_vars
    /\ [][(call'[1].controllerAborted /\ ~call[1].controllerAborted)
            => /\ call[1].pc = "stream"
               /\ call'[1].depth = call[1].depth
               /\ call'[1].exit = "loopInStream"]_vars

\* C8: the internal controller alone aborted the model call's signal.
C8_Witness ==
    /\ call[1].turn = "ran"
    /\ call[1].controllerAborted
    /\ ~call[1].signalAborted
    /\ call[1].linked = "aborted"

FrameOverSessionCap(c) ==
    /\ config.maxSessionTurns > 0
    /\ c.currentTurnCount > config.maxSessionTurns

EarlyExits == {"sessionCap", "budget", "overflow"}

Count(out, e) == Len(SelectSeq(out, LAMBDA x : x = e))

\* C11, as stated: every call that is not ended by the session-turn cap or a
\* zero budget has attempted compression by the time it returns.
C11_CompressionUnlessCapOrBudget ==
    \A p \in Frames :
        (call[p].pc \in {"done", "returned"}
            /\ call[p].exit \notin {"sessionCap", "budget"})
            => call[p].compression # Null

\* C11, amended: every call that is not ended by the session-turn cap, a zero
\* budget or the context-window check attempts a non-forced compression
\* before its loop check, IDE-context step, routing and dispatch; a call ended
\* by one of those three attempts none.  With COMPRESSED the chat is replaced
\* by a new one holding the compressed history and ChatCompressed is emitted
\* once, as the call's first event; with any other status no ChatCompressed is
\* emitted and the chat is the one the call found.
C11_CompressionComesFirst ==
    /\ [](\A p \in Frames :
            /\ call[p].exit \in EarlyExits => call[p].compression = Null
            /\ (call[p].pc \notin {"entered", "compress"}
                    /\ call[p].exit \notin EarlyExits)
                    => call[p].compression \in CompressionStatuses
            /\ call[p].compression = Null
                    => /\ Count(call[p].out, "ChatCompressed") = 0
                       /\ call[p].startChecks = 0
                       /\ call[p].ideUpdate = NoIdeUpdate
                       /\ call[p].modelToUse = Null
                       /\ call[p].turn = "empty"
                       /\ chat = call[p].entry.chat
            /\ call[p].compression = "COMPRESSED"
                    => /\ Count(call[p].out, "ChatCompressed") = 1
                       /\ call[p].out[1] = "ChatCompressed"
                       /\ call[p].beforeIde.chat.id = call[p].currentTurnCount
                       /\ call[p].beforeIde.chat.id # call[p].entry.chat.id
                       /\ call[p].beforeIde.chat.history = CompressedHistory
                       /\ chat.id = call[p].currentTurnCount
            /\ call[p].compression \in CompressionStatuses \ {"COMPRESSED"}
                    => /\ Count(call[p].out, "ChatCompressed") = 0
                       /\ call[p].beforeIde.chat = call[p].entry.chat
                       /\ chat.id = call[p].entry.chat.id)
    /\ [][(call[1].compression = Null
                /\ call'[1].compression
                        = "COMPRESSION_FAILED_INFLATED_TOKEN_COUNT")
            => hasFailedCompressionAttempt']_vars

\* C11: a call compressed the chat and then streamed a model event.
C11_Witness ==
    /\ call[1].compression = "COMPRESSED"
    /\ call[1].turn = "ran"
    /\ call[1].out = <<"ChatCompressed", "Content">>
    /\ chat.id = call[1].currentTurnCount
    /\ call[1].entry.chat.history # CompressedHistory

\* The request estimate of frame c is above 95% of the remaining context.
Above95Percent(c) == c.estimate.estimated * 100 > c.estimate.remaining * 95

\* C12, as stated: whenever the request estimate exceeds 95% of the remaining
\* context, the call emits ContextWindowWillOverflow and nothing else.
C12_OverflowAlwaysReported ==
    \A p \in Frames :
        Above95Percent(call[p])
            => call[p].out = <<"ContextWindowWillOverflow">>

\* C12, amended: a call that is not ended by the session-turn cap or a zero
\* budget compares floor(serializedLength / 4) with 95% of the remaining
\* context; when the estimate is above it the call emits exactly
\* ContextWindowWillOverflow with that estimate and that remainder and returns
\* with no compression, routing or dispatch and with the chat, its history and
\* the IDE-context fields as it found them; otherwise, and in a call ended by
\* the cap or the budget, no ContextWindowWillOverflow is emitted.
C12_OverflowReportedAfterCapAndBudget ==
    \A p \in Frames :
        /\ call[p].estimate.estimated = call[p].estimate.length \div 4
        /\ call[p].exit = "overflow"
                <=> (call[p].exit \notin {"sessionCap", "budget"}
                        /\ Above95Percent(call[p]))
        /\ call[p].exit = "overflow"
                => /\ call[p].out = <<"ContextWindowWillOverflow">>
                   /\ call[p].overflow = <<call[p].estimate.estimated,
                                           call[p].estimate.remaining>>
                   /\ DidNothing(call[p])
                   /\ call[p].ideUpdate = NoIdeUpdate
                   /\ Snapshot = call[p].entry
        /\ call[p].exit # "overflow"
                => /\ Count(call[p].out, "ContextWindowWillOverflow") = 0
                   /\ call[p].overflow = <<>>

\* C12: a request estimated at 100 tokens met 100 remaining tokens and a chat
\* with a history.
C12_Witness ==
    /\ call[1].exit = "overflow"
    /\ call[1].overflow = <<100, 100>>
    /\ call[1].out = <<"ContextWindowWillOverflow">>
    /\ Len(chat.history) > 0

\* The last entry of history h is a model turn with a function call.
EndsWithFunctionCall(h) == Len(h) > 0 /\ h[Len(h)] = "model:functionCall"

\* C13: in a call that reaches the IDE-context step (after compression), with
\* IDE mode on and a history that does not end with a model functionCall
\* turn, at most one synthetic user turn is appended to the history: built as
\* a full snapshot when forceFullIdeContext is set, the history is empty or no
\* context was sent before, and as a delta otherwise, and not appended when
\* the parts built are empty (or the store holds no context).  With IDE mode
\* off or a tool call pending, the history, lastSentIdeContext and
\* forceFullIdeContext are left as they were.
C13_IdeContextStep ==
    \A p \in Frames :
        call[p].compression # Null =>
            LET b == call[p].beforeIde
                h == b.chat.history
                u == call[p].ideUpdate
            IN  IF config.ideMode /\ ~EndsWithFunctionCall(h)
                THEN /\ u # NoIdeUpdate
                     /\ u.kind \in {"full", "delta", "noContext"}
                     /\ u.kind = "full"
                            => (b.forceFullIdeContext \/ Len(h) = 0
                                    \/ b.lastSentIdeContext = Undefined)
                     /\ u.kind = "delta"
                            => (~b.forceFullIdeContext /\ Len(h) > 0
                                    /\ b.lastSentIdeContext # Undefined)
                     /\ u.kind = "noContext" => ~u.contextParts
                     /\ chat.id = b.chat.id
                     /\ chat.history = IF u.contextParts
                                       THEN h \o <<"user:ideContext">>
                                       ELSE h
                ELSE /\ u = NoIdeUpdate
                     /\ chat = b.chat
                     /\ lastSentIdeContext = b.lastSentIdeContext
                     /\ forceFullIdeContext = b.forceFullIdeContext

\* C13: a second call appended a delta against the context sent by the first.
C13_Witness ==
    /\ sessionTurnCount = 2
    /\ call[1].ideUpdate.kind = "delta"
    /\ call[1].ideUpdate.contextParts
    /\ lastSentIdeContext # call[1].beforeIde.lastSentIdeContext
    /\ Len(chat.history) = Len(call[1].beforeIde.chat.history) + 1
    /\ chat.history[Len(chat.history)] = "user:ideContext"

(* --------------------------------------------- claims on RetryController *)
\* The events of kind k of the run, in order.
RunEvents(k) == SelectSeq(retryRun.events, LAMBDA e : e.kind = k)

RunEnded == retryRun.pc \in {"returned", "raised"}

\* Every attempt of the run failed, and failed with error.
EveryAttemptFailedWith(error) ==
    /\ Len(RunEvents("catch")) = Len(RunEvents("attemptFactory"))
    /\ \A i \in 1 .. Len(RunEvents("catch")) :
            RunEvents("catch")[i].category = error

\* C14: run() calls attemptFactory at most maxAttempts times, with attempt
\* indices 0, 1, 2, ... in order.  A run that has ended and in which every
\* attempt (there is one at least) failed with a malformed-content
\* InvalidStreamError has called it maxAttempts times, has yielded
\* maxAttempts - 1 retry events, one for each attempt but the last, has
\* reported failure telemetry once, for the last attempt, and raises the last
\* attempt's error.
C14_AttemptsAndRetries ==
    LET calls == RunEvents("attemptFactory")
        retries == RunEvents("retry")
        failures == RunEvents("logRetryFailure")
    IN  /\ Len(calls) <= retryRun.maxAttempts
        /\ \A i \in 1 .. Len(calls) : calls[i].attempt = i - 1
        /\ (RunEnded /\ Len(calls) >= 1
                /\ EveryAttemptFailedWith("InvalidStreamError:MALFORMED_CONTENT"))
                => /\ Len(calls) = retryRun.maxAttempts
                   /\ Len(retries) = retryRun.maxAttempts - 1
                   /\ \A i \in 1 .. Len(retries) : retries[i].attempt = i - 1
                   /\ Len(failures) = 1
                   /\ failures[1].attempt = retryRun.maxAttempts - 1
                   /\ Len(RunEvents("logRetryAttempt")) = Len(retries)
                   /\ retryRun.pc = "raised"
                   /\ retryRun.lastError
                        = [error |-> "InvalidStreamError:MALFORMED_CONTENT",
                           attempt |-> retryRun.maxAttempts - 1]

\* C14: three attempts failed with malformed content, two were retried.
C14_Witness ==
    /\ retryRun.pc = "raised"
    /\ retryRun.maxAttempts = 3
    /\ EveryAttemptFailedWith("InvalidStreamError:MALFORMED_CONTENT")
    /\ Len(RunEvents("attemptFactory")) = 3
    /\ Len(RunEvents("retry")) = 2
    /\ Len(RunEvents("logRetryFailure")) = 1

\* The positions in the run's events where an error of the class is caught.
CaughtAt(error) ==
    {i \in 1 .. Len(retryRun.events) :
        /\ retryRun.events[i].kind = "catch"
        /\ retryRun.events[i].category = error}

\* C15, as stated (its last part): a run whose first attempt failed with a
\* SAFETY_BLOCK InvalidStreamError has emitted no chunk event.
C15_SafetyBlockOnFirstAttemptNoChunks ==
    \A i \in CaughtAt("InvalidStreamError:SAFETY_BLOCK") :
        retryRun.events[i].attempt = 0 => Len(RunEvents("chunk")) = 0

\* C15, amended: when an attempt fails with a SAFETY_BLOCK InvalidStreamError
\* the run reports failure telemetry for it, the only failure report of the
\* run, and raises that error at once: no retry event for the attempt, no
\* delay, no further attemptFactory call.  When it is the first attempt the
\* run has emitted the chunks that attempt's stream handed over before it
\* failed, and no other.
C15_SafetyBlockIsNotRetried ==
    \A i \in CaughtAt("InvalidStreamError:SAFETY_BLOCK") :
        LET n == Len(retryRun.events)
            a == retryRun.events[i].attempt
        IN  /\ i = n - 1
            /\ retryRun.events[n]
                    = RunEvent("logRetryFailure", a,
                               retryRun.initialDelayMs * (a + 1),
                               "SAFETY_BLOCK")
            /\ Len(RunEvents("logRetryFailure")) = 1
            /\ \A j \in 1 .. n :
                    retryRun.events[j].kind \in {"retry", "delay"}
                        => retryRun.events[j].attempt < a
            /\ Len(RunEvents("attemptFactory")) = a + 1
            /\ retryRun.pc = "raised"
            /\ retryRun.lastError
                    = [error |-> "InvalidStreamError:SAFETY_BLOCK",
                       attempt |-> a]
            /\ a = 0 => Len(RunEvents("chunk")) = retryRun.chunks

\* C15: the first attempt of a run handed over a chunk and was then
\* safety-blocked.
C15_Witness ==
    /\ retryRun.pc = "raised"
    /\ retryRun.lastError
            = [error |-> "InvalidStreamError:SAFETY_BLOCK", attempt |-> 0]
    /\ Len(RunEvents("chunk")) = 1
    /\ Len(RunEvents("retry")) = 0
    /\ Len(RunEvents("logRetryFailure")) = 1

\* C16, as stated (its last part): run() raises only when its last executed
\* attempt failed, and then raises that attempt's error.
C16_RaisesOnlyAfterFailedAttempt ==
    retryRun.pc = "raised" =>
        /\ Len(RunEvents("attemptFactory")) >= 1
        /\ retryRun.lastError.attempt = Len(RunEvents("attemptFactory")) - 1

\* C16, amended: when the stream of an attempt completes, run() ends normally
\* with nothing raised, whatever number of earlier attempts failed, and
\* attemptFactory is not called again.  run() raises only when its last
\* executed attempt failed, and then raises that attempt's error, or when
\* maxAttempts <= 0, where it executes no attempt and raises
\* Error('Request failed after all retries.').
C16_SuccessEndsTheRun ==
    LET n == Len(retryRun.events)
        calls == Len(RunEvents("attemptFactory"))
        catches == RunEvents("catch")
    IN  /\ \A i \in 1 .. n :
                retryRun.events[i].kind = "completed"
                    => /\ i = n
                       /\ retryRun.pc = "returned"
                       /\ retryRun.lastError = NoError
                       /\ retryRun.events[i].attempt = calls - 1
        /\ retryRun.pc = "returned"
                => (n > 0 /\ retryRun.events[n].kind = "completed")
        /\ retryRun.pc = "raised"
                => IF calls = 0
                   THEN /\ retryRun.maxAttempts <= 0
                        /\ retryRun.lastError = RequestFailedError
                   ELSE /\ Len(catches) > 0
                        /\ catches[Len(catches)].attempt = calls - 1
                        /\ retryRun.lastError
                            = [error |-> catches[Len(catches)].category,
                               attempt |-> calls - 1]

\* C16: the third attempt of a run completed after two had failed.
C16_Witness ==
    /\ retryRun.pc = "returned"
    /\ Len(RunEvents("catch")) = 2
    /\ Len(RunEvents("attemptFactory")) = 3
    /\ retryRun.events[Len(retryRun.events)].kind = "completed"
    /\ retryRun.lastError = NoError

\* C17: when an attempt fails with an error that is not an
\* InvalidStreamError, run() raises that error at once: it yields no retry
\* event for the attempt, reports neither retry-attempt nor retry-failure
\* telemetry for it, awaits no delay and calls attemptFactory no more.
C17_OtherErrorsPropagate ==
    \A i \in CaughtAt("Error") :
        LET n == Len(retryRun.events)
            a == retryRun.events[i].attempt
        IN  /\ i = n
            /\ retryRun.pc = "raised"
            /\ retryRun.lastError = [error |-> "Error", attempt |-> a]
            /\ Len(RunEvents("attemptFactory")) = a + 1
            /\ Len(RunEvents("logRetryFailure")) = 0
            /\ \A j \in 1 .. n :
                    retryRun.events[j].kind
                        \in {"retry", "delay", "logRetryAttempt"}
                        => retryRun.events[j].attempt < a

\* C17: the second attempt of a run failed with an ordinary error after the
\* first had been retried.
C17_Witness ==
    /\ retryRun.pc = "raised"
    /\ retryRun.lastError = [error |-> "Error", attempt |-> 1]
    /\ Len(RunEvents("retry")) = 1
    /\ Len(RunEvents("logRetryAttempt")) = 1

\* The positions of the run's events of kind k that belong to attempt a.
EventsAt(k, a) ==
    {i \in 1 .. Len(retryRun.events) :
        retryRun.events[i].kind = k /\ retryRun.events[i].attempt = a}

\* C18: in one run, for every retried attempt N, the chunks of attempt N come
\* before the retry event for N, the retry event comes before the delay is
\* awaited, and attemptFactory is called for N + 1 only when the delay is
\* over; nothing of attempt N, a chunk least of all, comes after
\* attemptFactory was called for N + 1.
C18_RetryOrdering ==
    /\ [](\A k \in 1 .. Len(retryRun.events) :
            LET e == retryRun.events[k]
            IN  /\ \A j \in 1 .. k : retryRun.events[j].attempt <= e.attempt
                /\ e.kind = "chunk"
                        => \E j \in EventsAt("attemptFactory", e.attempt) : j < k
                /\ e.kind = "retry"
                        => /\ \A j \in EventsAt("chunk", e.attempt) : j < k
                           /\ \A j \in EventsAt("delay", e.attempt) : k < j
                           /\ \A j \in EventsAt("attemptFactory",
                                                 e.attempt + 1) : k < j
                           /\ e.delayMs > 0
                                => EventsAt("delay", e.attempt) = {k + 1}
                /\ e.kind = "delay"
                        => /\ EventsAt("retry", e.attempt) = {k - 1}
                           /\ \A j \in EventsAt("attemptFactory",
                                                 e.attempt + 1) : k < j)
    /\ [](retryRun.pc = "delay"
            => Len(retryRun.events) \in EventsAt("delay", retryRun.attempt))
    /\ [][retryRun.pc = "delay"
            => /\ retryRun'.events = retryRun.events
               /\ retryRun'.pc = "attempt"
               /\ retryRun'.attempt = retryRun.attempt + 1]_vars

\* C18: a chunk of the first attempt, its retry event, the delay, and a chunk
\* of the second attempt.
C18_Witness ==
    /\ EventsAt("chunk", 0) # {}
    /\ EventsAt("retry", 0) # {}
    /\ EventsAt("delay", 0) # {}
    /\ EventsAt("chunk", 1) # {}

\* C19: every retry event carries the index of the attempt that failed, the
\* configured maxAttempts and delayMs = initialDelayMs * (attempt + 1); the
\* delay awaited before the next attempt is that delayMs (none is awaited
\* when it is 0), and the delays of the retries of one run never decrease.
C19_RetryPayloadAndDelay ==
    LET n == Len(retryRun.events)
        retries == {k \in 1 .. n : retryRun.events[k].kind = "retry"}
    IN  /\ \A k \in retries :
            LET e == retryRun.events[k]
            IN  /\ e.attempt \in 0 .. retryRun.attempt
                /\ EventsAt("catch", e.attempt) = {k - 2}
                /\ Len(RunEvents("attemptFactory")) > e.attempt
                /\ e.maxAttempts = retryRun.maxAttempts
                /\ e.delayMs = retryRun.initialDelayMs * (e.attempt + 1)
                /\ \A j \in EventsAt("delay", e.attempt) :
                        retryRun.events[j].delayMs = e.delayMs
                /\ (EventsAt("delay", e.attempt) = {}) <=> (e.delayMs = 0)
                /\ \A j \in retries :
                        j < k => retryRun.events[j].delayMs <= e.delayMs
        /\ retryRun.pc = "delay"
                => /\ n - 1 \in retries
                   /\ retryRun.delayMs = retryRun.events[n - 1].delayMs
                   /\ retryRun.delayMs > 0

\* C19: two retries of one run, the second with twice the delay of the first.
C19_Witness ==
    /\ retryRun.pc = "delay"
    /\ retryRun.initialDelayMs = 500
    /\ retryRun.delayMs = 1000
    /\ Len(RunEvents("retry")) = 2

(* --------------------------------------- claims on DeclarativeTaskPolicy *)
\* C20: when the policy has an allow-list, validateToolCall for a tool name
\* that is not on it returns TOOL_NOT_ALLOWED, with a message that names
\* every allowed tool, and never FILE_SCOPE_VIOLATION, whatever the file
\* scopes of the policy and the locations of the invocation.
C20_AllowListComesFirst ==
    LET policy == policyCall.policy
        violation == policyCall.violation
    IN  (/\ policyCall.pc = "validated"
         /\ policy.allowedTools.defined
         /\ policyCall.toolName \notin policy.allowedTools.value)
            => /\ violation.code = "TOOL_NOT_ALLOWED"
               /\ violation.code # "FILE_SCOPE_VIOLATION"
               /\ violation.toolName = policyCall.toolName
               /\ \A t \in policy.allowedTools.value :
                    \E i \in 1 .. Len(violation.message) :
                        violation.message[i] = t

\* C20: a tool off the allow-list is called with a location that no declared
\* scope matches.
C20_Witness ==
    /\ policyCall.pc = "validated"
    /\ policyCall.policy.allowedTools.defined
    /\ policyCall.policy.allowedTools.value # {}
    /\ policyCall.toolName \notin policyCall.policy.allowedTools.value
    /\ Len(policyCall.policy.fileScopes) > 0
    /\ \E i \in 1 .. Len(policyCall.locations) :
        \A s \in 1 .. Len(policyCall.policy.fileScopes) :
            ~ScopeMatches(policyCall.policy.fileScopes[s],
                          policyCall.policy.projectRoot,
                          policyCall.locations[i])
    /\ policyCall.violation.code = "TOOL_NOT_ALLOWED"

\* The tool of the last validateToolCall is on the allow-list, or there is
\* no allow-list.
PassesAllowList ==
    \/ ~policyCall.policy.allowedTools.defined
    \/ policyCall.toolName \in policyCall.policy.allowedTools.value

\* The positions of the reported locations that no declared scope matches.
Unmatched ==
    {i \in 1 .. Len(policyCall.locations) :
        \A s \in 1 .. Len(policyCall.policy.fileScopes) :
            ~ScopeMatches(policyCall.policy.fileScopes[s],
                          policyCall.policy.projectRoot,
                          policyCall.locations[i])}

\* C21: with file scopes declared and the tool past the allow-list,
\* validateToolCall returns null exactly when every reported location matches
\* some scope; otherwise it returns FILE_SCOPE_VIOLATION for the first
\* location, in the order reported, that matches none, and the message names
\* that location's path relative to the project root.
C21_FirstUnmatchedLocation ==
    LET violation == policyCall.violation
        locations == policyCall.locations
    IN  (/\ policyCall.pc = "validated"
         /\ Len(policyCall.policy.fileScopes) > 0
         /\ PassesAllowList)
            => /\ (violation = NoViolation) <=> (Unmatched = {})
               /\ \A i \in Unmatched :
                    (\A j \in Unmatched : i <= j)
                        => LET relative == Relative(policyCall.policy.projectRoot,
                                                    locations[i])
                           IN  /\ violation.code = "FILE_SCOPE_VIOLATION"
                               /\ violation.path = locations[i]
                               /\ violation.toolName = policyCall.toolName
                               /\ SubSeq(violation.message, 4,
                                         3 + Len(relative)) = relative

\* C21: the first reported location matches a scope, the second, a different
\* path, matches none and is the one reported.
C21_Witness ==
    /\ policyCall.pc = "validated"
    /\ PassesAllowList
    /\ Unmatched = {2}
    /\ policyCall.locations[1] # policyCall.locations[2]
    /\ policyCall.violation.code = "FILE_SCOPE_VIOLATION"
    /\ policyCall.violation.path = policyCall.locations[2]

\* The project-root-relative path of absolutePath matches an include glob of
\* the scope and none of its exclude globs.
IncludedNotExcluded(rule, projectRoot, absolutePath) ==
    LET relative == Relative(projectRoot, absolutePath)
        excludes == IF rule.exclude.defined THEN rule.exclude.value ELSE <<>>
    IN  /\ \E g \in 1 .. Len(rule.include) :
            GlobMatches(rule.include[g], relative)
        /\ \A g \in 1 .. Len(excludes) : ~GlobMatches(excludes[g], relative)

\* C22: a location matches a scope S if and only if its path relative to the
\* project root matches an include glob of S and no exclude glob of S; the
\* exclude globs of S count for S only, so a location that another scope
\* includes and does not exclude is permitted.
C22_MatchIsIncludeMinusExclude ==
    LET policy == policyCall.policy
        locations == policyCall.locations
    IN  policyCall.pc = "validated"
            => \A i \in 1 .. Len(locations) :
                /\ \A s \in 1 .. Len(policy.fileScopes) :
                        ScopeMatches(policy.fileScopes[s], policy.projectRoot,
                                     locations[i])
                            <=> IncludedNotExcluded(policy.fileScopes[s],
                                                    policy.projectRoot,
                                                    locations[i])
                /\ (\E s \in 1 .. Len(policy.fileScopes) :
                        IncludedNotExcluded(policy.fileScopes[s],
                                            policy.projectRoot, locations[i]))
                        => policyCall.violation.path # locations[i]

\* The path does not lie under the project root.
OutsideRoot(projectRoot, absolutePath) ==
    \/ Len(absolutePath) < Len(projectRoot)
    \/ SubSeq(absolutePath, 1, Len(projectRoot)) # projectRoot

\* C23: a location whose path lies outside the project root matches no scope,
\* whatever the include globs; so when at least one scope is declared (and
\* the tool is past the allow-list) a call that reports such a location is
\* answered with FILE_SCOPE_VIOLATION.
C23_OutsideRootNeverMatches ==
    LET policy == policyCall.policy
        locations == policyCall.locations
    IN  (/\ policyCall.pc = "validated"
         /\ Len(policy.fileScopes) > 0
         /\ PassesAllowList)
            => \A i \in 1 .. Len(locations) :
                OutsideRoot(policy.projectRoot, locations[i])
                    => /\ \A s \in 1 .. Len(policy.fileScopes) :
                            ~ScopeMatches(policy.fileScopes[s],
                                          policy.projectRoot, locations[i])
                       /\ policyCall.violation.code = "FILE_SCOPE_VIOLATION"

\* C24: when the tool is on the allow-list, or there is no allow-list, and
\* the policy declares no file scope or the invocation reports no location,
\* validateToolCall returns null; so the policy {allowedTools: ['write_file']}
\* permits a call of write_file.
C24_NothingToCheckIsPermitted ==
    (/\ policyCall.pc = "validated"
     /\ PassesAllowList
     /\ \/ Len(policyCall.policy.fileScopes) = 0
        \/ policyCall.locations = <<>>)
        => policyCall.violation = NoViolation

\* C24: the policy {allowedTools: ['write_file']} is asked about a call of
\* write_file that reports locations, and permits it.
C24_Witness ==
    /\ policyCall.pc = "validated"
    /\ policyCall.policy.allowedTools.defined
    /\ policyCall.policy.allowedTools.value = {"write_file"}
    /\ Len(policyCall.policy.fileScopes) = 0
    /\ policyCall.toolName = "write_file"
    /\ Len(policyCall.locations) > 0
    /\ policyCall.violation = NoViolation

(* --------------------------------------- claims on loadDeclarativePolicy *)
\* The policy file of the load could not be read or parsed, or what it holds
\* is one of the malformed documents.
MalformedDocument ==
    \/ policyLoad.text.kind \in {"rejects", "unparseable"}
    \/ /\ policyLoad.text.kind = "document"
       /\ policyLoad.text.document \in MalformedDocuments

\* C25: when the policy document cannot be read, cannot be parsed or violates
\* the rules schema in some field, loadDeclarativePolicy throws and returns
\* no policy: neither one built from the rest of the document nor one built
\* from the inline rules alone.
C25_MalformedDocumentFailsTheLoad ==
    (policyLoad.pc = "done" /\ MalformedDocument)
        => /\ policyLoad.outcome.kind = "threw"
           /\ policyLoad.outcome.policy = NoPolicy

\* C25: a document with an unknown key next to well-formed fields, loaded
\* with well-formed inline rules, fails the load.
C25_Witness ==
    /\ policyLoad.pc = "done"
    /\ policyLoad.text.kind = "document"
    /\ policyLoad.text.document.unknownKey
    /\ policyLoad.text.document.allowedTools = Field(<<"read_file">>)
    /\ policyLoad.source.rules.defined
    /\ policyLoad.source.rules.value.allowedTools = Field(<<"write_file">>)
    /\ ~policyLoad.source.rules.value.unknownKey
    /\ policyLoad.outcome.kind = "threw"

\* The field that the claimed merge takes: the inline one when the inline
\* rules define it, the document's otherwise.
InlineElseDocument(inline, document) ==
    IF inline.defined THEN inline ELSE document

\* C26: when a policy document and inline rules are both supplied, each of
\* allowedTools, fileScopes and responseRequirements of the resulting policy
\* is the inline rules' field when they define it and the document's field
\* otherwise, whole and never mixed with the other's elements.
C26_InlineOverridesPerField ==
    LET inline == policyLoad.source.rules.value
        document == policyLoad.text.document
        policy == policyLoad.outcome.policy
        allowedTools == InlineElseDocument(inline.allowedTools,
                                           document.allowedTools)
        fileScopes == InlineElseDocument(inline.fileScopes,
                                         document.fileScopes)
        responseRequirements ==
            InlineElseDocument(inline.responseRequirements,
                               document.responseRequirements)
    IN  (/\ policyLoad.pc = "done"
         /\ policyLoad.source.path
         /\ policyLoad.source.rules.defined
         /\ policyLoad.outcome.kind = "policy")
            => /\ policy.allowedTools.defined = allowedTools.defined
               /\ policy.allowedTools.value
                    = {allowedTools.value[i] :
                            i \in 1 .. Len(allowedTools.value)}
               /\ policy.fileScopes = fileScopes.value
               /\ policy.responseRequirements = responseRequirements.value

\* C26: the document sets all three fields and the inline rules only
\* allowedTools: the policy has the inline allow-list and the document's
\* scopes and requirements.
C26_Witness ==
    /\ policyLoad.pc = "done"
    /\ policyLoad.source.path
    /\ policyLoad.text.document = FullDocument
    /\ policyLoad.source.rules.defined
    /\ policyLoad.source.rules.value.allowedTools = Field(<<"write_file">>)
    /\ ~policyLoad.source.rules.value.fileScopes.defined
    /\ ~policyLoad.source.rules.value.responseRequirements.defined
    /\ policyLoad.outcome.kind = "policy"
    /\ policyLoad.outcome.policy.allowedTools.value = {"write_file"}
    /\ policyLoad.outcome.policy.fileScopes = FullDocument.fileScopes.value

(* ------------------------------------------- claims on describeForPrompt *)
\* The place of a tool name in the sorted order of the names.
Rank(toolName) ==
    CHOOSE i \in 1 .. Len(ToolOrder) : ToolOrder[i] = toolName

\* The sections of one kind of a description, in their order.
SectionsOf(text, kind) == SelectSeq(text, LAMBDA section : section.kind = kind)

\* C27: on one policy instance describeForPrompt returns the same text on
\* every call, whether or not validateToolCall was called in between; the
\* text lists the allowed tools in sorted order, whatever the order they were
\* declared in, and the scopes and the response requirements in the order
\* they were declared in.
C27_DescriptionIsStable ==
    LET policy == policyCall.policy
        described == policyCall.described
    IN  \A c \in 1 .. Len(described) :
            LET text == described[c].text
                lists == SectionsOf(text, "allowedTools")
                scopes == SectionsOf(text, "scope")
                requirements == SectionsOf(text, "requirement")
            IN  /\ text = described[1].text
                /\ Len(lists) = IF policy.allowedTools.defined THEN 1 ELSE 0
                /\ \A l \in 1 .. Len(lists) :
                    /\ policy.allowedTools.value # {}
                        => {lists[l].tools[a] : a \in 1 .. Len(lists[l].tools)}
                                = policy.allowedTools.value
                    /\ \A a, b \in 1 .. Len(lists[l].tools) :
                            a < b => Rank(lists[l].tools[a])
                                        < Rank(lists[l].tools[b])
                /\ Len(scopes) = Len(policy.fileScopes)
                /\ \A i \in 1 .. Len(scopes) :
                    /\ scopes[i].label = policy.labels[i]
                    /\ scopes[i].include = policy.fileScopes[i].include
                /\ Len(requirements) = Len(policy.responseRequirements)
                /\ \A i \in 1 .. Len(requirements) :
                    requirements[i].id = policy.responseRequirements[i].id

\* C27: a policy whose tools were declared out of order, with two scopes of
\* different labels and two requirements, is described before and after a
\* call of validateToolCall.
C27_Witness ==
    /\ Len(policyCall.described) = 2
    /\ ~policyCall.described[1].validated
    /\ policyCall.described[2].validated
    /\ policyCall.policy.allowedTools.order = <<"write_file", "read_file">>
    /\ Len(policyCall.policy.labels) = 2
    /\ policyCall.policy.labels[1] # policyCall.policy.labels[2]
    /\ Len(policyCall.policy.responseRequirements) = 2

(* ----------------------------------------- claims on VerificationService *)
\* The result of a finished call of verify, and its one assertion.
VerifyReturned == verifyCall.outcome.kind = "returned"

VerifyResult == verifyCall.outcome.result

\* C28: verify never raises: whatever the input, the tool-registry lookup,
\* the invocation builder, the search and the cancellation do, a call of
\* verify ends by returning a VerificationResult.
C28_VerifyNeverRaises == verifyCall.outcome.kind # "raised"

\* C29: every VerificationResult that verify returns carries exactly one
\* assertion, whichever way the call ended.
C29_ExactlyOneAssertion ==
    VerifyReturned => Len(VerifyResult.assertions) = 1

\* verify has returned a grounded result and an uncertain one is just as
\* reachable: here the grounded one, with its single assertion.
C29_Witness ==
    /\ VerifyReturned
    /\ VerifyResult.status = "grounded"
    /\ Len(VerifyResult.assertions) = 1
    /\ verifyCall.events =
         <<"getTool", "build", "execute", "executeReturned",
           "controller.abort", "return">>

\* The search executed without raising and returned at least one source.
SearchFoundSources ==
    /\ verifyCall.search = "returned"
    /\ verifyCall.found.defined
    /\ Len(verifyCall.found.value) >= 1

\* C30: verify returns status grounded exactly when the search executed
\* without raising and returned at least one source; then its assertion has
\* grounded = true and all the returned sources; in every other outcome the
\* status is uncertain and the assertion has grounded = false and no
\* sources, a search that found nothing giving the reason no_sources.
C30_GroundedIffSourcesFound ==
    VerifyReturned =>
        LET assertion == VerifyResult.assertions[1]
        IN  /\ VerifyResult.status = "grounded" <=> SearchFoundSources
            /\ SearchFoundSources =>
                    /\ assertion.grounded
                    /\ assertion.sources = verifyCall.found.value
            /\ ~SearchFoundSources =>
                    /\ VerifyResult.status = "uncertain"
                    /\ ~assertion.grounded
                    /\ assertion.sources = <<>>
            /\ (verifyCall.search = "returned" /\ ~SearchFoundSources) =>
                    VerifyResult.reason = Some(<<"no_sources">>)

\* The search resolved with two sources after the caller had cancelled, and
\* verify returned a grounded result that carries both.
C30_Witness ==
    /\ VerifyReturned
    /\ verifyCall.callerAborted
    /\ VerifyResult.status = "grounded"
    /\ Len(VerifyResult.assertions[1].sources) = MaxSources

\* The place of the first event of that name in the trace of the call, 0 if
\* there is none.
EventAt(name) ==
    IF \E i \in 1 .. Len(verifyCall.events) : verifyCall.events[i] = name
    THEN CHOOSE i \in 1 .. Len(verifyCall.events) :
            /\ verifyCall.events[i] = name
            /\ \A j \in 1 .. (i - 1) : verifyCall.events[j] # name
    ELSE 0

\* C31: whenever verify has started a search, the signal handed to the
\* search is aborted by the time verify returns, whether the search returned
\* or raised and whether or not the caller cancelled; the controller of the
\* service is aborted on completion only, after the search has returned or
\* raised and right before the return, never while the search is running.
C31_SearchSignalAbortedOnReturn ==
    /\ verifyCall.pc = "executing" => verifyCall.controller = "created"
    /\ verifyCall.controller = "aborted" =>
            /\ verifyCall.pc = "done"
            /\ verifyCall.search \in {"returned", "raised"}
    /\ (verifyCall.pc = "done" /\ verifyCall.search # "none") =>
            /\ verifyCall.controller = "aborted"
            /\ EventAt("execute") < EventAt("controller.abort")
            /\ EventAt("executeReturned") + EventAt("executeRaised")
                    = EventAt("controller.abort") - 1
            /\ EventAt("return") = EventAt("controller.abort") + 1

\* The search raised without any cancellation by the caller, and verify
\* returned with the controller aborted.
C31_Witness ==
    /\ verifyCall.pc = "done"
    /\ verifyCall.search = "raised"
    /\ ~verifyCall.callerAborted
    /\ verifyCall.controller = "aborted"

\* The note of an assertion that carries the text of the error.
CarriesErrorText(prefix) == VerifyResult.assertions[1].note = prefix

\* C32: when the search raises, verify returns uncertain/aborted if the
\* combined signal is aborted when the exception is handled, and
\* uncertain/web_search_failed with the text of the error otherwise; an
\* exception raised while nobody has cancelled is never reported as aborted.
C32_RaisedSearchIsAbortedOrFailed ==
    (verifyCall.pc = "done" /\ verifyCall.search = "raised") =>
        /\ VerifyReturned
        /\ VerifyResult.status = "uncertain"
        /\ verifyCall.callerAborted =>
                VerifyResult.reason = Some(<<"aborted">>)
        /\ ~verifyCall.callerAborted =>
                /\ VerifyResult.reason = Some(<<"web_search_failed">>)
                /\ CarriesErrorText("Verification failed: error")

\* The caller cancelled while the search ran, the search then raised, and
\* verify returned uncertain/aborted.
C32_Witness ==
    /\ verifyCall.pc = "done"
    /\ verifyCall.search = "raised"
    /\ verifyCall.callerAborted
    /\ VerifyResult.reason = Some(<<"aborted">>)

\* input.finalText is empty once trimmed: it holds white space only.
Blank ==
    \A i \in 1 .. Len(verifyCall.finalText) :
        verifyCall.finalText[i] \in {" ", "\n"}

\* C33: verify starts a search only if the trimmed finalText is not empty,
\* the web-search tool is registered and the invocation was built without
\* raising. Otherwise it returns at once, with no search started:
\* uncertain/empty_response without consulting the tool registry, else
\* uncertain/missing_web_search_tool, else uncertain/web_search_build_failed
\* with the text of the error.
C33_SearchOnlyWhenPrepared ==
    verifyCall.pc # "idle" =>
        LET registered == verifyCall.collaborators.lookup = "found"
            buildable == verifyCall.collaborators.build = "built"
            reason == VerifyResult.reason
        IN  /\ verifyCall.search # "none" <=>
                    (~Blank /\ registered /\ buildable)
            /\ Blank =>
                    /\ VerifyReturned
                    /\ reason = Some(<<"empty_response">>)
                    /\ verifyCall.events = <<"return">>
            /\ (~Blank /\ ~registered) =>
                    /\ VerifyReturned
                    /\ reason = Some(<<"missing_web_search_tool">>)
                    /\ verifyCall.events = <<"getTool", "return">>
            /\ (~Blank /\ registered /\ ~buildable) =>
                    /\ VerifyReturned
                    /\ reason = Some(<<"web_search_build_failed">>)
                    /\ CarriesErrorText(
                            "Unable to prepare verification search: error")
                    /\ verifyCall.events = <<"getTool", "build", "return">>

(* ------------------------------------------ claims on ModelRouterService *)
\* The decision route returned and the one the chain resolved with.
RouteDecision == routeCall.outcome.decision

ChainDecision == routeCall.chain.decision

\* C34: under AUTO_EDIT route forces requiresVerification = true, and the
\* verificationReason it returns is the reason of the chain, ';' and
\* policy_auto_edit when the chain gave a reason, policy_auto_edit alone
\* otherwise, with the rest of the decision as the chain gave it; under a
\* mode that demands no verification route returns the decision of the
\* chain unchanged.
C34_PolicyOverlayOnDecision ==
    routeCall.outcome.kind = "returned" =>
        IF routeCall.approvalMode = "AUTO_EDIT"
        THEN /\ RouteDecision.metadata.requiresVerification
             /\ RouteDecision.metadata.verificationReason =
                    IF ChainDecision.metadata.verificationReason
                            = Some(<<"classifier_complexity">>)
                    THEN Some(<<"classifier_complexity", ";",
                               "policy_auto_edit">>)
                    ELSE Some(<<"policy_auto_edit">>)
             /\ RouteDecision.model = ChainDecision.model
             /\ RouteDecision.metadata.source = ChainDecision.metadata.source
             /\ RouteDecision.metadata.latencyMs
                    = ChainDecision.metadata.latencyMs
             /\ RouteDecision.metadata.reasoning
                    = ChainDecision.metadata.reasoning
        ELSE RouteDecision = ChainDecision

\* Under AUTO_EDIT the chain asked for verification because of
\* classifier_complexity, and route returned the two reasons joined.
C34_Witness ==
    /\ routeCall.outcome.kind = "returned"
    /\ routeCall.approvalMode = "AUTO_EDIT"
    /\ ChainDecision.metadata.requiresVerification
    /\ ChainDecision.metadata.verificationReason
            = Some(<<"classifier_complexity">>)
    /\ RouteDecision.metadata.verificationReason
            = Some(<<"classifier_complexity", ";", "policy_auto_edit">>)

\* C35: every call of route emits exactly one routing telemetry event,
\* whether it succeeds or fails; when the chain raises the event has
\* failed = true, the source router-exception and the default model of the
\* session, and route raises the error of the chain again and returns no
\* decision.
C35_OneRoutingEventPerCall ==
    /\ routeCall.pc # "done" => routeCall.telemetry = <<>>
    /\ routeCall.pc = "done" =>
            /\ Len(routeCall.telemetry) = 1
            /\ routeCall.chain.kind = "resolved" =>
                    /\ routeCall.outcome.kind = "returned"
                    /\ ~routeCall.telemetry[1].failed
            /\ routeCall.chain.kind = "rejected" =>
                    /\ routeCall.telemetry[1].failed
                    /\ routeCall.telemetry[1].source = "router-exception"
                    /\ routeCall.telemetry[1].model = routeCall.defaultModel
                    /\ routeCall.outcome.kind = "raised"
                    /\ routeCall.outcome.error = routeCall.chain.error
                    /\ routeCall.outcome.decision = NoDecision

\* The chain raised: one failed event with the default model was logged and
\* route raised the same error.
C35_Witness ==
    /\ routeCall.pc = "done"
    /\ routeCall.chain.kind = "rejected"
    /\ Len(routeCall.telemetry) = 1
    /\ routeCall.telemetry[1].failed
    /\ routeCall.outcome = [kind |-> "raised", decision |-> NoDecision,
                            error |-> "Strategy failed"]

(* ------------------------------------------------ claims on the /mode command *)
\* The mode that the last command asked for: its argument trimmed and in
\* lower case, when that is plan or build.
Requested ==
    LET args == ToLowerCase(Trim(session.rawArgs))
    IN  IF args = <<"p", "l", "a", "n">> THEN "plan"
        ELSE IF args = <<"b", "u", "i", "l", "d">> THEN "build"
        ELSE IF args = <<>> THEN "nothing"
        ELSE "invalid"

\* C36: /mode changes the session mode only when its trimmed, lower-cased
\* argument is plan or build and differs from the current mode; it then
\* calls setMode exactly once, with that mode, and returns an info message.
\* With no argument, an invalid argument or the current mode it leaves the
\* mode alone, calls setMode not at all and returns an info, an error and
\* an info message respectively. The mode is always plan or build.
C36_ModeCommand ==
    /\ session.mode \in {"plan", "build"}
    /\ session.commands > 0 =>
        IF Requested \in {"plan", "build"} /\ Requested # session.before.mode
        THEN /\ session.mode = Requested
             /\ session.setModeCalls
                    = Append(session.before.setModeCalls, Requested)
             /\ session.result.messageType = "info"
        ELSE /\ session.mode = session.before.mode
             /\ session.setModeCalls = session.before.setModeCalls
             /\ session.result.messageType
                    = IF Requested = "invalid" THEN "error" ELSE "info"

\* In build mode the user typed ' Build' with a capital and white space
\* around it, after an earlier switch: nothing changed.
C36_Witness ==
    /\ session.commands > 1
    /\ session.rawArgs = <<" ", "B", "u", "i", "l", "d", "\n">>
    /\ session.before.mode = "build"
    /\ session.mode = "build"
    /\ session.setModeCalls = <<"build">>
    /\ session.result.content = <<"Already in", "Build">>

(* -------------------------------------------- claims on the session counter *)
\* This step is an invocation of sendMessageStream by task p: a call by the
\* caller, or a continuation one level deeper.
Invokes(p) ==
    \/ ~Active(p) /\ call'[p] # call[p]
    \/ call'[p].depth = call[p].depth + 1

\* C37: every invocation of sendMessageStream, a recovery or next-speaker
\* continuation and an invocation that returns early included, adds exactly
\* one to the session turn counter, before the session cap, the budget and
\* the context window are looked at; nothing else changes the counter, which
\* is never decremented or reset.
C37_EveryInvocationCountsOnce ==
    [][/\ \A p \in Procs :
            Invokes(p) =>
                /\ sessionTurnCount' = sessionTurnCount + 1
                /\ call'[p].currentTurnCount = sessionTurnCount'
                /\ call'[p].exit \in {"sessionCap", "budget", "overflow"}
                        => call'[p].pc \in {"done", "returned"}
       /\ (\A p \in Procs : ~Invokes(p))
                => sessionTurnCount' = sessionTurnCount]_vars

\* A continuation in the middle of a turn was the third invocation of a
\* session capped at two turns and ended with MaxSessionTurns.
C37_Witness ==
    /\ config.maxSessionTurns = 2
    /\ call[1].depth >= 1
    /\ call[1].exit = "sessionCap"
    /\ call[1].out = <<"MaxSessionTurns">>
    /\ call[1].currentTurnCount = 3
    /\ sessionTurnCount = 3

(* --------------------------------------- claims on the loop at turn start *)
\* The start-of-turn loop check of frame c reported a loop: LoopDetected was
\* emitted before any event of the stream was looked at.
LoopedAtStart(c) ==
    /\ ~c.resumed
    /\ c.checked = 0
    /\ \E i \in 1 .. Len(c.out) : c.out[i] = "LoopDetected"

\* C38: when the loop check at the start of the turn reports a loop,
\* sendMessageStream returns before routing: the router is not invoked, the
\* sticky model stays as it was and the model is not called, while the
\* compression and the IDE-context injection of that turn stay applied to
\* the chat.
C38_LoopAtStartReturnsBeforeRouting ==
    /\ [](\A p \in Procs :
            LoopedAtStart(call[p]) =>
                /\ call[p].pc \in {"done", "returned"}
                /\ call[p].exit = "loopAtStart"
                /\ Last(call[p].out) = "LoopDetected"
                /\ call[p].modelToUse = Null
                /\ call[p].turn = "empty"
                /\ call[p].consumed = 0
                /\ call[p].compression # Null)
    /\ [][\A p \in Procs :
            (~LoopedAtStart(call[p]) /\ LoopedAtStart(call'[p])) =>
                /\ currentSequenceModel' = currentSequenceModel
                /\ series' = series
                /\ call'[p].routerCalls = call[p].routerCalls
                /\ call'[p].dispatches = call[p].dispatches
                /\ chat' = chat
                /\ lastSentIdeContext' = lastSentIdeContext
                /\ forceFullIdeContext' = forceFullIdeContext
                /\ call[p].compression = "COMPRESSED" =>
                        chat'.id = call[p].currentTurnCount
                /\ call[p].ideUpdate.contextParts =>
                        /\ Last(chat'.history) = "user:ideContext"
                        /\ lastSentIdeContext'
                                = call[p].ideUpdate.newIdeContext
                        /\ ~forceFullIdeContext']_vars

\* The chat was compressed and the IDE context injected, then the check at
\* the start of the turn reported a loop: the call returned with no model
\* chosen, the new chat and the injected context still in place.
C38_Witness ==
    /\ LoopedAtStart(call[1])
    /\ call[1].pc = "done"
    /\ call[1].out = <<"ChatCompressed", "LoopDetected">>
    /\ call[1].ideUpdate.contextParts
    /\ chat.id = call[1].currentTurnCount
    /\ Last(chat.history) = "user:ideContext"
    /\ currentSequenceModel = Null
    /\ series.routeCalls = 0

(* ------------------------------------- claims on the operations on the chat *)
\* This step completes the operation op on the chat.
Completes(op) == lifecycle'.ops # lifecycle.ops /\ lifecycle'.op = op

\* This step is the IDE-context injection step of some sendMessageStream.
InjectionStep ==
    \E p \in Procs :
        /\ call[p].pc = "compress"
        /\ call'[p].pc # "compress"
        /\ call'[p].ideUpdate # NoIdeUpdate

\* C39: initialize, resetChat, resumeChat, setHistory and a successful
\* compression leave the force-full-IDE-context flag set (inside a turn the
\* compression sets it before the IDE-context step of that turn); an
\* injection that finds the flag set builds a full snapshot, or nothing when
\* the store holds no context, and never a delta; and the flag goes from set
\* to cleared only in an IDE-context injection step of sendMessageStream.
C39_ForceFullAfterChatOperations ==
    /\ [][/\ (\E op \in {"initialize", "resetChat", "resumeChat",
                          "setHistory"} : Completes(op))
                => forceFullIdeContext'
          /\ (Completes("tryCompressChat")
                    /\ lifecycle'.attempt.status = "COMPRESSED")
                => forceFullIdeContext'
          /\ (forceFullIdeContext /\ ~forceFullIdeContext')
                => InjectionStep]_vars
    /\ [](\A p \in Frames :
            call[p].compression # Null =>
                /\ call[p].compression = "COMPRESSED"
                        => call[p].beforeIde.forceFullIdeContext
                /\ (call[p].beforeIde.forceFullIdeContext
                        /\ call[p].ideUpdate # NoIdeUpdate)
                        => call[p].ideUpdate.kind \in {"full", "noContext"})

\* A first turn sent an IDE context, then setHistory replaced the history
\* with a non-empty one: the injection of the next turn found a context sent
\* before and a history, and was a full snapshot because the flag was set.
C39_Witness ==
    /\ lifecycle.op = "setHistory"
    /\ call[1].compression = "NOOP"
    /\ call[1].beforeIde.forceFullIdeContext
    /\ call[1].beforeIde.lastSentIdeContext # Undefined
    /\ Len(call[1].beforeIde.chat.history) > 0
    /\ call[1].ideUpdate.kind = "full"
    /\ call[1].ideUpdate.contextParts
    /\ ~forceFullIdeContext

\* This step makes one compression attempt, inside a turn or from outside.
Attempts ==
    \/ \E p \in Procs : call[p].pc = "compress" /\ call'[p].pc # "compress"
    \/ Completes("tryCompressChat")

\* This step starts a new chat without a compression.
StartsChat ==
    \E op \in {"initialize", "resetChat", "resumeChat"} : Completes(op)

\* C40: every compression attempt is passed the value of the
\* compression-failure flag at the time of the attempt; an attempt that
\* reports an inflated token count sets the flag when it was not forced and
\* clears it when it was forced; a successful compression and initialize,
\* resetChat and resumeChat clear it; any other outcome of an attempt, and
\* every step that is neither an attempt nor the start of a chat, leaves it
\* as it was.
C40_CompressionFailureFlag ==
    [][LET a == lifecycle'.attempt
           inflated == a.status = "COMPRESSION_FAILED_INFLATED_TOKEN_COUNT"
       IN  /\ Attempts =>
                /\ a.hasFailedCompressionAttempt = hasFailedCompressionAttempt
                /\ inflated => hasFailedCompressionAttempt' = ~a.force
                /\ a.status = "COMPRESSED" => ~hasFailedCompressionAttempt'
                /\ a.status \notin
                        {"COMPRESSED",
                         "COMPRESSION_FAILED_INFLATED_TOKEN_COUNT"}
                    => hasFailedCompressionAttempt'
                            = hasFailedCompressionAttempt
           /\ StartsChat => ~hasFailedCompressionAttempt'
           /\ (~hasFailedCompressionAttempt /\ hasFailedCompressionAttempt')
                => (Attempts /\ inflated /\ ~a.force)
           /\ (hasFailedCompressionAttempt /\ ~hasFailedCompressionAttempt')
                => \/ StartsChat
                   \/ Attempts /\ inflated /\ a.force
                   \/ Attempts /\ a.status = "COMPRESSED"]_vars

\* A non-forced attempt failed with an inflated token count and set the flag;
\* the forced attempt after it was passed the flag, failed the same way and
\* cleared it.
C40_Witness ==
    /\ lifecycle.op = "tryCompressChat"
    /\ lifecycle.attempt
            = Attempt(TRUE, TRUE, "COMPRESSION_FAILED_INFLATED_TOKEN_COUNT")
    /\ ~hasFailedCompressionAttempt

====
